---- MODULE Spec2Model ----
(***************************************************************************)
(* A model of the pbjs Bitcoin library (src/*.py): Merkle-tree proof       *)
(* reconstruction, the Script interpreter and codec, transactions, and     *)
(* the elliptic-curve signature code.                                      *)
(*                                                                         *)
(* Conventions.                                                            *)
(*  - A byte string is a sequence of integers 0..255.                      *)
(*  - Python's None is the empty sequence where the other values are       *)
(*    non-empty byte strings (a Merkle slot), and the record NoneVal        *)
(*    elsewhere.                                                           *)
(*  - An exception is a control state named after the exception class      *)
(*    ("IndexError", "RuntimeError", ...) or, in a pure function, the      *)
(*    record [err |-> <class>].                                            *)
(*  - SHA-256 and RIPEMD-160 are external primitives (hashlib); hash256    *)
(*    is modelled by a small deterministic mixing function with a two-byte *)
(*    digest.                                                              *)
(*  - Each library is single-threaded: one call runs at a time, and the    *)
(*    variables of the calls that are not running stay at their idle        *)
(*    values.                                                              *)
(***************************************************************************)
EXTENDS Integers, Sequences, FiniteSets, TLC

VARIABLES
    mt,          \* the MerkleTree object: total, max_depth, nodes, cursor
    flag_bits,   \* populate_tree's flag_bits list (consumed by pop(0))
    hashes,      \* populate_tree's hashes list (consumed by pop(0))
    pt_pc,       \* populate_tree: "idle", "loop", "returned", or an exception
    mb,          \* the MerkleBlock whose is_valid() is running
    iv_pc,       \* is_valid: "idle", "called", "returned", "raised"
    iv_result,   \* is_valid's return value
    mt_shape,    \* a MerkleTree just constructed: its fields, each level by its slot count
    sc_in,       \* Script codec: the command list being serialized
    sc_ser,      \* Script codec: what serialize() gave (bytes or exception)
    sc_out,      \* Script codec: what parse() gave on those bytes
    sc_pc,       \* Script codec: "idle", "serialized", "parsed"
    ev_script,   \* evaluate: self.cmds
    ev_z,        \* evaluate: the signature hash z
    ev_cmds,     \* evaluate: the local copy cmds, consumed by pop(0)
    ev_stack,    \* evaluate: the main stack
    ev_altstack, \* evaluate: the altstack
    ev_pc,       \* evaluate: "idle", "run", "True", "False", or an exception
    ev_bad,      \* history: "none", or how a handler failed ("False", "raise")
    ev_end,      \* history: the main stack when the command loop ended
    ev_called,   \* history: the opcode of the last iteration and what its handler got
    cache,       \* TxFetcher.cache: tx id -> Tx
    cache_obj,   \* which Tx object each entry is: 0 for none, n for the n-th made
    fetch_args,  \* history: the last fetch call of the application, <<>> for none
    tx_call,     \* the Tx call: "idle", "serialize", "parse", "verify", "sig_hash"
    tx_obj,      \* the Tx the call is made on
    tx_arg,      \* sig_hash's input_index
    tx_ser,      \* what Tx.serialize() gave
    tx_parsed,   \* what Tx.parse() gave on those bytes
    tx_ret,      \* what verify() or sig_hash() returned or raised
    tx_after,    \* the Tx object as sign_input leaves it
    ecc_call,    \* the ecc call: "idle", "add", "PrivateKey", "sign", "verify"
    ecc_args,    \* its arguments
    ecc_key,     \* the PrivateKey object, once constructed
    ecc_ret,     \* what the call returned or raised
    hp_call,     \* the helper.py call: "idle", "encode_varint", "read_varint", ...
    hp_arg,      \* its argument
    hp_mid,      \* the value in between (encoded bytes, current_level, target)
    hp_ret,      \* what the call returned or raised
    hp_list,     \* the caller's list object now, and whether current_level is it
    net_call,    \* the network.py call: "idle", "serialize", "parse", "wait_for", "done"
    net_arg,     \* its arguments
    net_ser,     \* what NetworkEnvelope.serialize() gave
    net_ret,     \* what the call returned or raised
    net_stream,  \* SimpleNode.stream: the bytes of the peer not read yet
    net_command, \* wait_for's local `command`: <<>> for None, else <<command>>
    net_sent     \* what socket.sendall was given, in order

merkleVars == <<mt, flag_bits, hashes, pt_pc, mb, iv_pc, iv_result, mt_shape>>
codecVars == <<sc_in, sc_ser, sc_out, sc_pc>>
evalVars ==
    <<ev_script, ev_z, ev_cmds, ev_stack, ev_altstack, ev_pc, ev_bad, ev_end, ev_called>>

txVars ==
    <<cache, cache_obj, fetch_args, tx_call, tx_obj, tx_arg, tx_ser, tx_parsed, tx_ret,
      tx_after>>

eccVars == <<ecc_call, ecc_args, ecc_key, ecc_ret>>

helperVars == <<hp_call, hp_arg, hp_mid, hp_ret, hp_list>>

netVars == <<net_call, net_arg, net_ser, net_ret, net_stream, net_command, net_sent>>

vars == <<merkleVars, codecVars, evalVars, txVars, eccVars, helperVars, netVars>>

nonMerkleVars == <<codecVars, evalVars, txVars, eccVars, helperVars, netVars>>
nonCodecVars == <<merkleVars, evalVars, txVars, eccVars, helperVars, netVars>>
nonEvalVars == <<merkleVars, codecVars, txVars, eccVars, helperVars, netVars>>
nonTxVars == <<merkleVars, codecVars, evalVars, eccVars, helperVars, netVars>>
nonEccVars == <<merkleVars, codecVars, evalVars, txVars, helperVars, netVars>>
nonHelperVars == <<merkleVars, codecVars, evalVars, txVars, eccVars, netVars>>
nonNetVars == <<merkleVars, codecVars, evalVars, txVars, eccVars, helperVars>>

(***************************************************************************)
(* Bounds of the model.                                                    *)
(***************************************************************************)
MaxTotal == 3        \* MerkleTree(total) for total in 1..MaxTotal
MaxShapeTotal == 40  \* constructor alone: total in 1..MaxShapeTotal and around 2^29
MaxFlagBits == 6     \* flag_bits lists of at most this many bits
MaxHashes == 3       \* hashes lists of at most this many hashes
MaxCodecCmds == 2    \* scripts of at most this many commands in the codec
MaxEvalCmds == 3     \* scripts of at most this many commands in evaluate
MaxTxIns == 2        \* transactions of at most this many inputs (and the long list)
MaxTxOuts == 1       \* transactions of at most this many outputs (and the long list)
MaxFetchCalls == 3   \* fetch calls the application makes in a row
MaxZ == 3            \* signature hashes 0..MaxZ in the ecc calls (and N + 1)
MaxFrames == 2       \* peer sessions of at most this many envelopes
MaxLeaves == 4       \* merkle_root on lists of at most this many hashes

(***************************************************************************)
(* Generic helpers.                                                        *)
(***************************************************************************)
None == <<>>

\* what a call gives: its value, or the exception it raises
Ok(v) == [ok |-> TRUE, val |-> v]
Raise(e) == [ok |-> FALSE, err |-> e]

\* name = v, then the code Op that uses name
With(v, Op(_)) == Op(v)

\* name = <a call>, then the code Op that uses name; the call's exception
\* propagates
Try(r, Op(_)) == IF r.ok THEN Op(r.val) ELSE r

\* the same for a call that also leaves a TxFetcher cache: [ok, val, cache]
TryC(r, Op(_, _)) == IF r.ok THEN Op(r.val, r.cache) ELSE r

\* the value of a result variable before its call has been made
NoResult == [ok |-> FALSE, err |-> "none"]

Min(a, b) == IF a < b THEN a ELSE b

\* s[::-1]
Reverse(s) == [i \in 1..Len(s) |-> s[Len(s) + 1 - i]]

\* all sequences over S of length at most n
SeqsUpTo(S, n) == UNION {[1..k -> S] : k \in 0..n}

(***************************************************************************)
(* helper.py: hashing.                                                     *)
(***************************************************************************)
RECURSIVE Mix(_)
Mix(s) == IF s = <<>> THEN 5
          ELSE (Mix(SubSeq(s, 1, Len(s) - 1)) * 3 + s[Len(s)] + 1) % 7

hash256(s) == LET n == Mix(s) IN <<n % 2, (n \div 2) % 2>>

merkle_parent(hash1, hash2) == hash256(hash1 \o hash2)

\* The digests the model draws proof hashes and header roots from.
Digests == {<<0, 0>>, <<0, 1>>, <<1, 0>>, <<1, 1>>}
ProofHashes == {<<0, 1>>, <<1, 1>>}

\* bytes_to_bit_field: eight bits per byte, least significant first
RECURSIVE ByteBits(_, _)
ByteBits(byte, k) == IF k = 0 THEN <<>>
                     ELSE <<byte % 2>> \o ByteBits(byte \div 2, k - 1)

RECURSIVE bytes_to_bit_field(_)
bytes_to_bit_field(some_bytes) ==
    IF some_bytes = <<>> THEN <<>>
    ELSE ByteBits(Head(some_bytes), 8) \o bytes_to_bit_field(Tail(some_bytes))

(***************************************************************************)
(* merkleblock.py: MerkleTree.                                             *)
(***************************************************************************)
\* the least k with 2^k >= total
RECURSIVE CeilLog2From(_, _)
CeilLog2From(total, k) == IF 2^k >= total THEN k ELSE CeilLog2From(total, k + 1)
\* math.ceil(math.log(total, 2)) for total >= 1.  math.log(total, 2) is the
\* double log(total) / log(2): for total = 2^29 it is 29.000000000000004 and
\* the ceiling is 30; for every other total below 2^31 the ceiling is exact.
CeilLog2(total) == IF total = 2^29 THEN 30 ELSE CeilLog2From(total, 0)

\* math.ceil(a / b)
CeilDiv(a, b) == (a + b - 1) \div b

\* MerkleTree.__init__
MerkleTree(total) ==
    LET max_depth == CeilLog2(total)
    IN [total |-> total,
        max_depth |-> max_depth,
        nodes |-> [d \in 1..(max_depth + 1) |->
                     [i \in 1..CeilDiv(total, 2^(max_depth - (d - 1))) |-> None]],
        current_depth |-> 0,
        current_index |-> 0]

\* MerkleTree.__init__ with each level of self.nodes given by its length
TreeShape(total) ==
    LET max_depth == CeilLog2(total)
    IN [total |-> total,
        max_depth |-> max_depth,
        num_items |-> [d \in 1..(max_depth + 1) |->
                         CeilDiv(total, 2^(max_depth - (d - 1)))],
        current_depth |-> 0,
        current_index |-> 0]

\* self.nodes[depth][index], depth and index counted from 0 as in the source
NodeAt(t, depth, index) == t.nodes[depth + 1][index + 1]

root(t) == NodeAt(t, 0, 0)

up(t) == [t EXCEPT !.current_depth = t.current_depth - 1,
                   !.current_index = t.current_index \div 2]

\* a left() that descends one slot too far
left_skips_one(t) == [t EXCEPT !.current_depth = t.current_depth + 1,
                               !.current_index = t.current_index * 2 + 2]

left(t) == [t EXCEPT !.current_depth = t.current_depth + 1,
                     !.current_index = t.current_index * 2]

\* a right() that leaves the cursor where it is
right_stays(t) == t

\* a right() that descends to the left child
right_goes_left(t) == [t EXCEPT !.current_depth = t.current_depth + 1,
                                !.current_index = t.current_index * 2]

right(t) == [t EXCEPT !.current_depth = t.current_depth + 1,
                      !.current_index = t.current_index * 2 + 1]

set_current_node(t, value) ==
    [t EXCEPT !.nodes[t.current_depth + 1][t.current_index + 1] = value]

get_left_node(t) == NodeAt(t, t.current_depth + 1, t.current_index * 2)

get_right_node(t) == NodeAt(t, t.current_depth + 1, t.current_index * 2 + 1)

is_leaf(t) == t.current_depth = t.max_depth

right_exists(t) == Len(t.nodes[t.current_depth + 2]) > t.current_index * 2 + 1

\* populate_tree's loop condition: while self.root() is None
LoopCond(t) == root(t) = None

\* an iteration that does not take the flag bit of a leaf off the list
PopulateIterLeafKeepsFlag(t, fb, hs) ==
    IF is_leaf(t) THEN
        IF fb = <<>> THEN [t |-> t, fb |-> fb, hs |-> hs, pc |-> "IndexError"]
        ELSE IF hs = <<>>
             THEN [t |-> t, fb |-> Tail(fb), hs |-> hs, pc |-> "IndexError"]
             ELSE [t |-> up(set_current_node(t, Head(hs))),
                   fb |-> fb, hs |-> Tail(hs), pc |-> "loop"]
    ELSE
        LET left_hash == get_left_node(t) IN
        IF left_hash = None THEN
            IF fb = <<>> THEN [t |-> t, fb |-> fb, hs |-> hs, pc |-> "IndexError"]
            ELSE IF Head(fb) = 0 THEN
                     IF hs = <<>>
                     THEN [t |-> t, fb |-> Tail(fb), hs |-> hs, pc |-> "IndexError"]
                     ELSE [t |-> up(set_current_node(t, Head(hs))),
                           fb |-> Tail(fb), hs |-> Tail(hs), pc |-> "loop"]
                 ELSE [t |-> left(t), fb |-> Tail(fb), hs |-> hs, pc |-> "loop"]
        ELSE IF right_exists(t) THEN
            LET right_hash == get_right_node(t) IN
            IF right_hash = None
            THEN [t |-> right(t), fb |-> fb, hs |-> hs, pc |-> "loop"]
            ELSE [t |-> up(set_current_node(t, merkle_parent(left_hash, right_hash))),
                  fb |-> fb, hs |-> hs, pc |-> "loop"]
        ELSE [t |-> up(set_current_node(t, merkle_parent(left_hash, left_hash))),
              fb |-> fb, hs |-> hs, pc |-> "loop"]

\* One iteration of populate_tree's while loop, on the state
\* [t, fb, hs, pc]; list.pop(0) on an empty list raises IndexError.
PopulateIter(t, fb, hs) ==
    IF is_leaf(t) THEN
        IF fb = <<>> THEN [t |-> t, fb |-> fb, hs |-> hs, pc |-> "IndexError"]
        ELSE IF hs = <<>>
             THEN [t |-> t, fb |-> Tail(fb), hs |-> hs, pc |-> "IndexError"]
             ELSE [t |-> up(set_current_node(t, Head(hs))),
                   fb |-> Tail(fb), hs |-> Tail(hs), pc |-> "loop"]
    ELSE
        LET left_hash == get_left_node(t) IN
        IF left_hash = None THEN
            IF fb = <<>> THEN [t |-> t, fb |-> fb, hs |-> hs, pc |-> "IndexError"]
            ELSE IF Head(fb) = 0 THEN
                     IF hs = <<>>
                     THEN [t |-> t, fb |-> Tail(fb), hs |-> hs, pc |-> "IndexError"]
                     ELSE [t |-> up(set_current_node(t, Head(hs))),
                           fb |-> Tail(fb), hs |-> Tail(hs), pc |-> "loop"]
                 ELSE [t |-> left(t), fb |-> Tail(fb), hs |-> hs, pc |-> "loop"]
        ELSE IF right_exists(t) THEN
            LET right_hash == get_right_node(t) IN
            IF right_hash = None
            THEN [t |-> right(t), fb |-> fb, hs |-> hs, pc |-> "loop"]
            ELSE [t |-> up(set_current_node(t, merkle_parent(left_hash, right_hash))),
                  fb |-> fb, hs |-> hs, pc |-> "loop"]
        ELSE [t |-> up(set_current_node(t, merkle_parent(left_hash, left_hash))),
              fb |-> fb, hs |-> hs, pc |-> "loop"]

\* the leftover checks without the check of the hashes
PopulateChecksFlagsOnly(fb, hs) ==
    IF \E i \in 1..Len(fb) : fb[i] # 0 THEN "RuntimeError" ELSE "returned"

\* populate_tree's checks after the loop: the exception raised, or "returned"
PopulateChecks(fb, hs) ==
    IF Len(hs) # 0 THEN "RuntimeError"
    ELSE IF \E i \in 1..Len(fb) : fb[i] # 0 THEN "RuntimeError"
    ELSE "returned"

PopulateErrors == {"IndexError", "RuntimeError"}

(***************************************************************************)
(* merkleblock.py: MerkleBlock.                                            *)
(***************************************************************************)
\* is_valid's comparison without the byte reversal of the root
RootMatchesUnreversed(t, block) == root(t) = block.merkle_root

\* merkle_tree.root()[::-1] == self.merkle_root
RootMatches(t, block) == Reverse(root(t)) = block.merkle_root

\* the MerkleBlock objects is_valid() is called on; hashes and merkle_root
\* are held in display (reversed) order, flags is a byte string
FlagBytes == 0..(2^MaxFlagBits - 1)
MerkleBlocks ==
    [total : 1..MaxTotal,
     hashes : SeqsUpTo(ProofHashes, MaxHashes),
     flags : SeqsUpTo(FlagBytes, 1),
     merkle_root : Digests]

(***************************************************************************)
(* helper.py: integers, streams and varints.                               *)
(***************************************************************************)
\* int.from_bytes(b, 'little')
RECURSIVE little_endian_to_int(_)
little_endian_to_int(b) ==
    IF b = <<>> THEN 0 ELSE Head(b) + 256 * little_endian_to_int(Tail(b))

\* n.to_bytes(length, 'little'), for 0 <= n < 256^length
RECURSIVE int_to_little_endian(_, _)
int_to_little_endian(n, length) ==
    IF length = 0 THEN <<>>
    ELSE <<n % 256>> \o int_to_little_endian(n \div 256, length - 1)

\* stream.read(n): at most n bytes, fewer at the end of the stream
Read(s, n) ==
    [data |-> SubSeq(s, 1, Min(n, Len(s))),
     rest |-> SubSeq(s, Min(n, Len(s)) + 1, Len(s))]

\* read_varint(s): [ok, val, rest]; s.read(1)[0] raises IndexError at the end
read_varint(s) ==
    IF s = <<>> THEN Raise("IndexError")
    ELSE IF Head(s) \in {253, 254, 255}
    THEN With(Read(Tail(s), IF Head(s) = 253 THEN 2 ELSE IF Head(s) = 254 THEN 4 ELSE 8),
              LAMBDA r :
         [ok |-> TRUE, val |-> little_endian_to_int(r.data), rest |-> r.rest])
    ELSE [ok |-> TRUE, val |-> Head(s), rest |-> Tail(s)]

\* encode_varint(i), for the integers the model reaches (i < 2^31): the
\* multi-byte branches write the literal 1, as the source does
encode_varint(i) ==
    IF i < 253 THEN <<i>>
    ELSE IF i < 65536 THEN <<253>> \o int_to_little_endian(1, 2)
    ELSE <<254>> \o int_to_little_endian(1, 4)

(***************************************************************************)
(* script.py: Script, its parser and its serializer.  A command is an      *)
(* opcode (a Python int) or a data push (a Python bytes).                  *)
(***************************************************************************)
Op(n) == [op |-> n]
Data(b) == [data |-> b]

\* type(cmd) == int
IsOp(cmd) == "op" \in DOMAIN cmd

\* Script.parse, a data push whose length follows the opcode in `width`
\* bytes (OP_PUSHDATA1, OP_PUSHDATA2): [data, rest, data_length]
ReadPushData(s1, width) ==
    With(Read(s1, width), LAMBDA l :
    With(little_endian_to_int(l.data), LAMBDA data_length :
    With(Read(l.rest, data_length), LAMBDA r :
    [data |-> r.data, rest |-> r.rest, data_length |-> data_length])))

\* the loop of Script.parse on the stream s: [ok, cmds, rest]
RECURSIVE ParseCmds(_, _, _, _)
ParseCmds(s, length, count, cmds) ==
    IF ~(count < length) THEN
        IF count # length THEN Raise("SyntaxError")
        ELSE [ok |-> TRUE, cmds |-> cmds, rest |-> s]
    ELSE IF s = <<>> THEN Raise("IndexError")
    ELSE With(Head(s), LAMBDA current_byte :
         IF current_byte >= 1 /\ current_byte <= 75 THEN
             With(Read(Tail(s), current_byte), LAMBDA r :
             ParseCmds(r.rest, length, count + 1 + current_byte,
                       Append(cmds, Data(r.data))))
         ELSE IF current_byte = 76 THEN
             With(ReadPushData(Tail(s), 1), LAMBDA r :
             ParseCmds(r.rest, length, count + 1 + r.data_length + 1,
                       Append(cmds, Data(r.data))))
         ELSE IF current_byte = 77 THEN
             With(ReadPushData(Tail(s), 2), LAMBDA r :
             ParseCmds(r.rest, length, count + 1 + r.data_length + 2,
                       Append(cmds, Data(r.data))))
         ELSE ParseCmds(Tail(s), length, count + 1, Append(cmds, Op(current_byte))))

\* Script.parse(s)
Script_parse(s) ==
    With(read_varint(s), LAMBDA v :
    IF ~v.ok THEN v ELSE ParseCmds(v.rest, v.val, 0, <<>>))

\* the length prefix raw_serialize writes before a data push of this length
PushPrefix(length) ==
    IF length < 75 THEN Ok(int_to_little_endian(length, 1))
    ELSE IF length > 75 /\ length < 256
         THEN Ok(int_to_little_endian(76, 1) \o int_to_little_endian(length, 1))
    ELSE IF length >= 256 /\ length <= 520
         THEN Ok(int_to_little_endian(77, 1) \o int_to_little_endian(length, 2))
    ELSE Raise("ValueError")

\* Script.raw_serialize: what one command adds to the result
SerializeCmd(cmd) ==
    IF IsOp(cmd) THEN Ok(int_to_little_endian(cmd.op, 1))
    ELSE Try(PushPrefix(Len(cmd.data)), LAMBDA pre : Ok(pre \o cmd.data))

\* Script.raw_serialize
RECURSIVE raw_serialize(_)
raw_serialize(cmds) ==
    IF cmds = <<>> THEN Ok(<<>>)
    ELSE Try(SerializeCmd(Head(cmds)), LAMBDA first :
         Try(raw_serialize(Tail(cmds)), LAMBDA others :
         Ok(first \o others)))

\* Script.serialize
Script_serialize(cmds) ==
    Try(raw_serialize(cmds), LAMBDA result :
    Ok(encode_varint(Len(result)) \o result))

\* a byte string of n bytes
Bytes(n, fill) == [i \in 1..n |-> fill]

\* the scripts the codec is run on: opcodes that are no push length, and
\* data pushes of 1 to 520 bytes
CodecCmds ==
    {Op(0), Op(118), Op(172)}
    \cup {Data(Bytes(n, 7)) : n \in {1, 2, 74, 75, 76, 255, 256, 520}}
CodecScripts == SeqsUpTo(CodecCmds, MaxCodecCmds)

(***************************************************************************)
(* op.py: the opcode handlers.  A handler's outcome is [ret, stack]: what  *)
(* it returned ("True", "False") or the exception it raised, and the stack *)
(* it leaves.                                                              *)
(***************************************************************************)
\* helper.hash160(s): hashlib.sha256(2) raises TypeError for every s
hash160(s) == Raise("TypeError")

Top(stack) == stack[Len(stack)]
Pop(stack) == SubSeq(stack, 1, Len(stack) - 1)

op_dup(stack) ==
    IF Len(stack) < 1 THEN [ret |-> "False", stack |-> stack]
    ELSE [ret |-> "True", stack |-> Append(stack, Top(stack))]

op_hash256(stack) ==
    IF Len(stack) < 1 THEN [ret |-> "False", stack |-> stack]
    ELSE [ret |-> "True", stack |-> Append(Pop(stack), hash256(Top(stack)))]

op_hash160(stack) ==
    IF Len(stack) < 1 THEN [ret |-> "False", stack |-> stack]
    ELSE With(hash160(Top(stack)), LAMBDA h :
         IF h.ok THEN [ret |-> "True", stack |-> Append(Pop(stack), h.val)]
         ELSE [ret |-> h.err, stack |-> Pop(stack)])

\* the keys of OP_CODE_FUNCTIONS and of OP_CODE_NAMES
OP_CODE_FUNCTIONS == {118, 170, 169}
OP_CODE_NAMES ==
    {0} \cup (76..79) \cup (81..97) \cup {99, 100} \cup (103..125)
    \cup {130, 135, 136, 139, 140} \cup (143..149) \cup (154..185)

\* OP_CODE_FUNCTIONS[cmd](stack)
Operation(cmd, stack) ==
    CASE cmd = 118 -> op_dup(stack)
      [] cmd = 170 -> op_hash256(stack)
      [] cmd = 169 -> op_hash160(stack)

(***************************************************************************)
(* script.py: Script.evaluate.                                             *)
(***************************************************************************)
\* how many arguments evaluate passes to the handler of opcode cmd
ArgCount(cmd) ==
    IF cmd \in {99, 100} THEN 2
    ELSE IF cmd \in {107, 108} THEN 2
    ELSE IF cmd \in {172, 173, 274, 175} THEN 2
    ELSE 1

\* evaluate's if chain on cmd: the arguments of operation(...)
HandlerArgs(cmd) ==
    IF cmd \in {99, 100} THEN <<"stack", "cmds">>
    ELSE IF cmd \in {107, 108} THEN <<"stack", "altstack">>
    ELSE IF cmd \in {172, 173, 274, 175} THEN <<"stack", "z">>
    ELSE <<"stack">>

\* operation = OP_CODE_FUNCTIONS[cmd] and the call of it: the opcode and the
\* arguments handed over, none when the lookup raises KeyError
Dispatch(cmd) ==
    [op |-> cmd,
     args |-> IF cmd \in OP_CODE_FUNCTIONS THEN HandlerArgs(cmd) ELSE <<>>]

\* LOGGER.info(f'bad op: {OP_CODE_NAMES[cmd]}'): LOGGER is the class
\* logging.Logger, so the message is bound to self and msg is missing
LoggerInfo(cmd) == IF cmd \in OP_CODE_NAMES THEN "TypeError" ELSE "KeyError"

\* a final check that only looks at the stack's length
EvalVerdictNonEmpty(stack) == IF Len(stack) = 0 THEN "False" ELSE "True"

\* the end of evaluate: the checks after the command loop
EvalVerdict(stack) ==
    IF Len(stack) = 0 THEN "False"
    ELSE IF Top(stack) = <<>> THEN "False"
    ELSE "True"

\* the p2sh pattern on the commands that remain after a data push
IsP2SH(cmds) ==
    /\ Len(cmds) = 3
    /\ cmds[1] = Op(169)
    /\ ~IsOp(cmds[2]) /\ Len(cmds[2].data) = 20
    /\ cmds[3] = Op(135)

\* evaluate, an opcode: cmd has been popped, rest is what remains
EvalOp(cmd, rest, stack) ==
    IF cmd \notin OP_CODE_FUNCTIONS
    THEN [cmds |-> rest, stack |-> stack, pc |-> "KeyError", bad |-> "raise"]
    ELSE IF ArgCount(cmd) # 1
    THEN \* the handlers of the table all take the stack alone
         [cmds |-> rest, stack |-> stack, pc |-> "TypeError", bad |-> "raise"]
    ELSE With(Operation(cmd, stack), LAMBDA r :
         IF r.ret = "True"
         THEN [cmds |-> rest, stack |-> r.stack, pc |-> "run", bad |-> "none"]
         ELSE IF r.ret = "False"
         THEN [cmds |-> rest, stack |-> r.stack, pc |-> LoggerInfo(cmd), bad |-> "False"]
         ELSE [cmds |-> rest, stack |-> r.stack, pc |-> r.ret, bad |-> "raise"])

\* evaluate, a data element: it is pushed; on the p2sh pattern the three
\* commands are popped, then op_hash160(stack): the stack is not empty, so
\* hash160 raises and the rest of the branch is not reached
EvalData(data, rest, stack) ==
    IF IsP2SH(rest)
    THEN With(op_hash160(Append(stack, data)), LAMBDA r :
         [cmds |-> <<>>, stack |-> r.stack,
          pc |-> IF r.ret = "True" THEN "TypeError" ELSE r.ret,
          bad |-> IF r.ret = "False" THEN "False" ELSE "raise"])
    ELSE [cmds |-> rest, stack |-> Append(stack, data), pc |-> "run", bad |-> "none"]

\* One iteration of evaluate's while loop (cmds is not empty):
\* [cmds, stack, pc, bad], pc = "run" when the loop goes on.
EvalIter(cmds, stack) ==
    IF IsOp(Head(cmds)) THEN EvalOp(Head(cmds).op, Tail(cmds), stack)
    ELSE EvalData(Head(cmds).data, Tail(cmds), stack)

EvalCmds ==
    {Op(118), Op(170), Op(169), Op(0), Op(99), Op(107), Op(172), Op(174),
     Data(<<>>), Data(<<1>>)}
P2SHScripts ==
    {<<Data(<<1>>), Op(169), Data(Bytes(20, 3)), Op(135)>>,
     <<Op(118), Data(<<1>>), Op(169), Data(Bytes(20, 3)), Op(135)>>}
EvalScripts == SeqsUpTo(EvalCmds, MaxEvalCmds) \cup P2SHScripts
ZValues == {1, 2}

(***************************************************************************)
(* tx.py: TxIn, TxOut, Tx.  A transaction id and a hash take HashLen bytes *)
(* (32 in the source, the digest length of hash256).                       *)
(***************************************************************************)
HashLen == 2
SIGHASH_ALL == 1

TxIn(prev_tx, prev_index, script_sig, sequence) ==
    [prev_tx |-> prev_tx, prev_index |-> prev_index,
     script_sig |-> script_sig, sequence |-> sequence]

TxOut(amount, script_pubkey) == [amount |-> amount, script_pubkey |-> script_pubkey]

Tx(version, tx_ins, tx_outs, locktime, testnet) ==
    [version |-> version, tx_ins |-> tx_ins, tx_outs |-> tx_outs,
     locktime |-> locktime, testnet |-> testnet]

\* obj.name: AttributeError when the object has no such attribute
GetAttr(obj, name) ==
    IF name \in DOMAIN obj THEN Ok(obj[name]) ELSE Raise("AttributeError")

\* TxIn.serialize
TxIn_serialize(tx_in) ==
    Try(Script_serialize(tx_in.script_sig), LAMBDA script_sig :
    Ok(Reverse(tx_in.prev_tx) \o int_to_little_endian(tx_in.prev_index, 4)
       \o script_sig \o int_to_little_endian(tx_in.sequence, 4)))

\* TxOut.serialize
TxOut_serialize(tx_out) ==
    Try(Script_serialize(tx_out.script_pubkey), LAMBDA script_pubkey :
    Ok(int_to_little_endian(tx_out.amount, 8) \o script_pubkey))

\* for tx_in in self.tx_ins: result += tx_in.serialize()
\* The loop's result is the concatenation of the inputs' serializations, or
\* the first exception; it is evaluated by halves to keep the evaluation
\* of a long list shallow.
RECURSIVE ConcatIns(_)
ConcatIns(tx_ins) ==
    IF tx_ins = <<>> THEN Ok(<<>>)
    ELSE IF Len(tx_ins) = 1 THEN TxIn_serialize(tx_ins[1])
    ELSE Try(ConcatIns(SubSeq(tx_ins, 1, Len(tx_ins) \div 2)), LAMBDA a :
         Try(ConcatIns(SubSeq(tx_ins, Len(tx_ins) \div 2 + 1, Len(tx_ins))), LAMBDA b :
         Ok(a \o b)))

SerializeIns(tx_ins, result) ==
    Try(ConcatIns(tx_ins), LAMBDA all : Ok(result \o all))

\* for tx_out in self.tx_outs: result += tx_out.serialize()
RECURSIVE ConcatOuts(_)
ConcatOuts(tx_outs) ==
    IF tx_outs = <<>> THEN Ok(<<>>)
    ELSE IF Len(tx_outs) = 1 THEN TxOut_serialize(tx_outs[1])
    ELSE Try(ConcatOuts(SubSeq(tx_outs, 1, Len(tx_outs) \div 2)), LAMBDA a :
         Try(ConcatOuts(SubSeq(tx_outs, Len(tx_outs) \div 2 + 1, Len(tx_outs))), LAMBDA b :
         Ok(a \o b)))

SerializeOuts(tx_outs, result) ==
    Try(ConcatOuts(tx_outs), LAMBDA all : Ok(result \o all))

\* Tx.serialize
Tx_serialize(tx) ==
    Try(SerializeIns(tx.tx_ins,
            int_to_little_endian(tx.version, 4) \o encode_varint(Len(tx.tx_ins))),
        LAMBDA ins :
    Try(SerializeOuts(tx.tx_outs, ins \o encode_varint(Len(tx.tx_outs))), LAMBDA outs :
    Ok(outs \o int_to_little_endian(tx.locktime, 4))))

\* TxIn.parse(stream): [ok, val, rest]
TxIn_parse(s) ==
    With(Read(s, HashLen), LAMBDA prev_tx :
    With(Read(prev_tx.rest, 4), LAMBDA prev_index :
    With(Script_parse(prev_index.rest), LAMBDA script_sig :
    IF ~script_sig.ok THEN script_sig
    ELSE With(Read(script_sig.rest, 4), LAMBDA sequence :
         [ok |-> TRUE,
          val |-> TxIn(Reverse(prev_tx.data), little_endian_to_int(prev_index.data),
                       script_sig.cmds, little_endian_to_int(sequence.data)),
          rest |-> sequence.rest]))))

\* TxOut.parse(stream): [ok, val, rest]
TxOut_parse(s) ==
    With(Read(s, 8), LAMBDA amount :
    With(Script_parse(amount.rest), LAMBDA script_pubkey :
    IF ~script_pubkey.ok THEN script_pubkey
    ELSE [ok |-> TRUE,
          val |-> TxOut(little_endian_to_int(amount.data), script_pubkey.cmds),
          rest |-> script_pubkey.rest]))

\* for _ in range(num_inputs): inputs.append(TxIn.parse(stream))
RECURSIVE ParseIns(_, _, _)
ParseIns(s, n, inputs) ==
    IF n = 0 THEN [ok |-> TRUE, val |-> inputs, rest |-> s]
    ELSE With(TxIn_parse(s), LAMBDA one :
         IF ~one.ok THEN one ELSE ParseIns(one.rest, n - 1, Append(inputs, one.val)))

\* for _ in range(num_outputs): outputs.append(TxOut.parse(stream))
RECURSIVE ParseOuts(_, _, _)
ParseOuts(s, n, outputs) ==
    IF n = 0 THEN [ok |-> TRUE, val |-> outputs, rest |-> s]
    ELSE With(TxOut_parse(s), LAMBDA one :
         IF ~one.ok THEN one ELSE ParseOuts(one.rest, n - 1, Append(outputs, one.val)))

\* Tx.parse, from the outputs' count on
ParseFromOuts(version, ins, testnet) ==
    With(read_varint(ins.rest), LAMBDA num_outputs :
    IF ~num_outputs.ok THEN num_outputs
    ELSE With(ParseOuts(num_outputs.rest, num_outputs.val, <<>>), LAMBDA outs :
         IF ~outs.ok THEN outs
         ELSE Ok(Tx(version, ins.val, outs.val,
                    little_endian_to_int(Read(outs.rest, 4).data), testnet))))

\* Tx.parse(stream, testnet)
Tx_parse(s, testnet) ==
    With(Read(s, 4), LAMBDA version :
    With(read_varint(version.rest), LAMBDA num_inputs :
    IF ~num_inputs.ok THEN num_inputs
    ELSE With(ParseIns(num_inputs.rest, num_inputs.val, <<>>), LAMBDA ins :
         IF ~ins.ok THEN ins
         ELSE ParseFromOuts(little_endian_to_int(version.data), ins, testnet))))

\* int.from_bytes(b, 'big')
big_endian_to_int(b) == little_endian_to_int(Reverse(b))

\* Tx.hash(); Tx.id() is its hex string, compared as the bytes here
Tx_hash(tx) ==
    Try(Tx_serialize(tx), LAMBDA ser : Ok(Reverse(hash256(ser))))

\* Script.evaluate(z) as one call: the loop of EvalIter, then EvalVerdict
RECURSIVE EvalLoop(_, _)
EvalLoop(cmds, stack) ==
    IF Len(cmds) = 0 THEN EvalVerdict(stack)
    ELSE With(EvalIter(cmds, stack), LAMBDA r :
         IF r.pc = "run" THEN EvalLoop(r.cmds, r.stack) ELSE r.pc)

Script_evaluate(cmds, z) == EvalLoop(cmds, <<>>)

(***************************************************************************)
(* tx.py: TxFetcher.  The HTTP server is the environment: it serves the    *)
(* raw bytes of one earlier transaction under its id and nothing under     *)
(* any other id.                                                           *)
(***************************************************************************)
ServedTx ==
    Tx(1, <<TxIn(<<0, 0>>, 0, <<>>, 1)>>,
       <<TxOut(5, <<Op(118), Op(170)>>), TxOut(0, <<Data(<<1>>)>>)>>, 0, FALSE)
ServedRaw == Tx_serialize(ServedTx).val
IdA == Reverse(hash256(ServedRaw))
IdB == CHOOSE d \in Digests : d # IdA
TxIds == {IdA, IdB}

\* requests.get(url) and bytes.fromhex(response.text.strip())
HttpGet(tx_id) == IF tx_id = IdA THEN Ok(ServedRaw) ELSE Raise("ValueError")

\* a cache slot with no entry (tx_id not in cls.cache)
Absent == [version |-> 0, tx_ins |-> <<>>, tx_outs |-> <<>>, locktime |-> 0,
           testnet |-> FALSE]

\* TxFetcher.fetch, the body of `if fresh or (tx_id not in cls.cache)`: the
\* cache with the fetched transaction, or the exception
FetchFill(c, tx_id, testnet) ==
    Try(HttpGet(tx_id), LAMBDA raw0 :
    With(raw0[5] = 0, LAMBDA marker :
    With(IF marker THEN SubSeq(raw0, 1, 4) \o SubSeq(raw0, 7, Len(raw0)) ELSE raw0,
         LAMBDA raw :
    Try(Tx_parse(raw, testnet), LAMBDA parsed :
    With(IF marker
         THEN [parsed EXCEPT !.locktime =
                  little_endian_to_int(SubSeq(raw, Len(raw) - 3, Len(raw)))]
         ELSE parsed, LAMBDA tx :
    Try(Tx_hash(tx), LAMBDA id :
    IF id # tx_id THEN Raise("ValueError") ELSE Ok([c EXCEPT ![tx_id] = tx])))))))

\* a fetch that returns the cached transaction with the flag it has
Fetch_keeps_flag(c, tx_id, testnet, fresh) ==
    With(IF fresh \/ c[tx_id] = Absent THEN FetchFill(c, tx_id, testnet) ELSE Ok(c),
         LAMBDA fill :
    IF ~fill.ok THEN [ok |-> FALSE, err |-> fill.err, cache |-> c]
    ELSE [ok |-> TRUE, val |-> fill.val[tx_id], cache |-> fill.val])

\* TxFetcher.fetch(tx_id, testnet, fresh): [ok, val | err, cache]
Fetch(c, tx_id, testnet, fresh) ==
    With(IF fresh \/ c[tx_id] = Absent THEN FetchFill(c, tx_id, testnet) ELSE Ok(c),
         LAMBDA fill :
    IF ~fill.ok THEN [ok |-> FALSE, err |-> fill.err, cache |-> c]
    ELSE With([fill.val EXCEPT ![tx_id].testnet = testnet], LAMBDA c2 :
         [ok |-> TRUE, val |-> c2[tx_id], cache |-> c2]))

\* TxIn.value(testnet): tx.tx_outs[self.prev_index].amount
TxIn_value(c, tx_in, testnet) ==
    TryC(Fetch(c, tx_in.prev_tx, testnet, FALSE), LAMBDA tx, c2 :
    IF tx_in.prev_index >= Len(tx.tx_outs)
    THEN [ok |-> FALSE, err |-> "IndexError", cache |-> c2]
    ELSE [ok |-> TRUE, val |-> tx.tx_outs[tx_in.prev_index + 1].amount, cache |-> c2])

\* TxIn.script_pubkey(testnet): tx.tx_outs[self.prev_index].script_pubkey
TxIn_script_pubkey(c, tx_in, testnet) ==
    TryC(Fetch(c, tx_in.prev_tx, testnet, FALSE), LAMBDA tx, c2 :
    IF tx_in.prev_index >= Len(tx.tx_outs)
    THEN [ok |-> FALSE, err |-> "IndexError", cache |-> c2]
    ELSE [ok |-> TRUE, val |-> tx.tx_outs[tx_in.prev_index + 1].script_pubkey,
          cache |-> c2])

\* Tx.fee: the loop over the inputs
RECURSIVE FeeIns(_, _, _, _)
FeeIns(c, tx_ins, testnet, input_sum) ==
    IF tx_ins = <<>> THEN [ok |-> TRUE, val |-> input_sum, cache |-> c]
    ELSE TryC(TxIn_value(c, Head(tx_ins), testnet), LAMBDA value, c2 :
         FeeIns(c2, Tail(tx_ins), testnet, input_sum + value))

RECURSIVE SumAmounts(_)
SumAmounts(tx_outs) ==
    IF tx_outs = <<>> THEN 0 ELSE Head(tx_outs).amount + SumAmounts(Tail(tx_outs))

\* Tx.fee(): [ok, val | err, cache]
Tx_fee(c, tx) ==
    TryC(FeeIns(c, tx.tx_ins, tx.testnet, 0), LAMBDA input_sum, c2 :
    [ok |-> TRUE, val |-> input_sum - SumAmounts(tx.tx_outs), cache |-> c2])

\* Tx.sig_hash, one input: the TxIn constructor's arguments are evaluated
\* in order, the sequence last, read as tx_in.sequqnce
SigHashIn(c, tx_in, script_sig) ==
    With(GetAttr(tx_in, "sequqnce"), LAMBDA sequence :
    IF ~sequence.ok THEN [ok |-> FALSE, err |-> sequence.err, cache |-> c]
    ELSE With(TxIn_serialize(TxIn(tx_in.prev_tx, tx_in.prev_index, script_sig,
                                  sequence.val)), LAMBDA ser :
         IF ~ser.ok THEN [ok |-> FALSE, err |-> ser.err, cache |-> c]
         ELSE [ok |-> TRUE, val |-> ser.val, cache |-> c]))

\* Tx.sig_hash: the loop over the inputs; i counts from 0, s is the buffer
RECURSIVE SigHashIns(_, _, _, _, _)
SigHashIns(c, tx, input_index, i, s) ==
    IF i = Len(tx.tx_ins) THEN [ok |-> TRUE, val |-> s, cache |-> c]
    ELSE TryC(IF i = input_index
              THEN TxIn_script_pubkey(c, tx.tx_ins[i + 1], tx.testnet)
              ELSE [ok |-> TRUE, val |-> <<>>, cache |-> c], LAMBDA script_sig, c2 :
         TryC(SigHashIn(c2, tx.tx_ins[i + 1], script_sig), LAMBDA ser, c3 :
         SigHashIns(c3, tx, input_index, i + 1, s \o ser)))

\* Tx.sig_hash(input_index): [ok, val | err, cache]
Tx_sig_hash(c, tx, input_index) ==
    TryC(SigHashIns(c, tx, input_index, 0,
             int_to_little_endian(tx.version, 4) \o encode_varint(Len(tx.tx_ins))),
         LAMBDA ins, c2 :
    With(SerializeOuts(tx.tx_outs, ins \o encode_varint(Len(tx.tx_outs))), LAMBDA outs :
    IF ~outs.ok THEN [ok |-> FALSE, err |-> outs.err, cache |-> c2]
    ELSE [ok |-> TRUE,
          val |-> big_endian_to_int(hash256(
                      outs.val \o int_to_little_endian(tx.locktime, 4)
                      \o int_to_little_endian(SIGHASH_ALL, 4))),
          cache |-> c2]))

\* Tx.verify_input(input_index): [ok, val | err, cache], val "True" or "False"
Tx_verify_input(c, tx, input_index) ==
    TryC(TxIn_script_pubkey(c, tx.tx_ins[input_index + 1], tx.testnet),
         LAMBDA script_pubkey, c2 :
    TryC(Tx_sig_hash(c2, tx, input_index), LAMBDA z, c3 :
    With(Script_evaluate(tx.tx_ins[input_index + 1].script_sig \o script_pubkey, z),
         LAMBDA verdict :
    IF verdict \in {"True", "False"}
    THEN [ok |-> TRUE, val |-> verdict, cache |-> c3]
    ELSE [ok |-> FALSE, err |-> verdict, cache |-> c3])))

\* Tx.verify: the loop over the inputs
RECURSIVE VerifyIns(_, _, _)
VerifyIns(c, tx, i) ==
    IF i = Len(tx.tx_ins) THEN [ok |-> TRUE, val |-> "True", cache |-> c]
    ELSE TryC(Tx_verify_input(c, tx, i), LAMBDA verdict, c2 :
         IF verdict # "True" THEN [ok |-> TRUE, val |-> "False", cache |-> c2]
         ELSE VerifyIns(c2, tx, i + 1))

\* Tx.verify(): [ok, val | err, cache]
Tx_verify(c, tx) ==
    TryC(Tx_fee(c, tx), LAMBDA fee, c2 :
    IF fee < 0 THEN [ok |-> TRUE, val |-> "False", cache |-> c2]
    ELSE VerifyIns(c2, tx, 0))

\* the Tx object before a Tx call has been made
NoTx == Absent

(***************************************************************************)
(* ecc.py.  The curve is y^2 = x^3 + 7, as in the source, over a field and *)
(* a group small enough to enumerate: P and N stand for the source's       *)
(* 256-bit prime and group order, G for its generator.  A Python int is an *)
(* integer, a FieldElement the record [num, prime], None the record        *)
(* NoneVal.  The operands of the field operations below are S256Field      *)
(* elements, whose prime is P and whose num is reduced modulo P, so the    *)
(* checks of __init__ and of the operators on the primes pass.             *)
(***************************************************************************)
A == 0
B == 7
P == 43
N == 31

NoneVal == [none |-> TRUE]

\* pow(base, exponent, modulus) for exponent >= 0
RECURSIVE ModPow(_, _, _)
ModPow(base, exponent, modulus) ==
    IF exponent = 0 THEN 1 % modulus
    ELSE With(ModPow(base, exponent \div 2, modulus), LAMBDA half :
         With((half * half) % modulus, LAMBDA sq :
         IF exponent % 2 = 1 THEN (sq * base) % modulus ELSE sq))

\* S256Field(num), 0 <= num < P
S256Field(num) == [num |-> num, prime |-> P]

\* FieldElement.__add__, __sub__, __mul__, __pow__, __truediv__
FieldElement_add(self, other) ==
    [num |-> (self.num + other.num) % self.prime, prime |-> self.prime]
FieldElement_sub(self, other) ==
    [num |-> (self.num - other.num) % self.prime, prime |-> self.prime]
FieldElement_mul(self, other) ==
    [num |-> (self.num * other.num) % self.prime, prime |-> self.prime]
FieldElement_pow(self, exponent) ==
    [num |-> ModPow(self.num, exponent, self.prime), prime |-> self.prime]
FieldElement_truediv(self, other) ==
    [num |-> (self.num * ModPow(other.num, self.prime - 2, self.prime)) % self.prime,
     prime |-> self.prime]

\* i * fe for a Python int i: int.__mul__ does not take a FieldElement and
\* FieldElement defines no __rmul__, so Python raises TypeError
IntTimesFieldElement(i, fe) == Raise("TypeError")

\* Point.__init__ without the test of the curve equation
Point_unchecked(x, y, a, b) ==
    IF (x = NoneVal) # (y = NoneVal) THEN Raise("TypeError")
    ELSE Ok([x |-> x, y |-> y, a |-> a, b |-> b])

\* Point.__init__(x, y, a, b): the point, or ValueError off the curve; with
\* one coordinate None, None ** 2 or None ** 3 raises TypeError
Point(x, y, a, b) ==
    IF x = NoneVal /\ y = NoneVal THEN Ok([x |-> x, y |-> y, a |-> a, b |-> b])
    ELSE IF x = NoneVal \/ y = NoneVal THEN Raise("TypeError")
    ELSE IF FieldElement_pow(y, 2)
            # FieldElement_add(FieldElement_add(FieldElement_pow(x, 3),
                                                FieldElement_mul(a, x)), b)
    THEN Raise("ValueError")
    ELSE Ok([x |-> x, y |-> y, a |-> a, b |-> b])

\* Point.__eq__
Point_eq(self, other) ==
    self.x = other.x /\ self.y = other.y /\ self.a = other.a /\ self.b = other.b

\* Point.__add__, the branch self.x != other.x
AddDistinct(self, other) ==
    With(FieldElement_truediv(FieldElement_sub(other.y, self.y),
                              FieldElement_sub(other.x, self.x)), LAMBDA slope :
    With(FieldElement_sub(FieldElement_sub(FieldElement_pow(slope, 2), self.x), other.x),
         LAMBDA x :
    Point(x, FieldElement_sub(FieldElement_mul(slope, FieldElement_sub(self.x, x)), self.y),
          self.a, self.b)))

\* Point.__add__, the branch self == other
AddSame(self) ==
    Try(IntTimesFieldElement(3, FieldElement_pow(self.x, 2)), LAMBDA three_x2 :
    Try(IntTimesFieldElement(2, self.y), LAMBDA two_y :
    With(FieldElement_truediv(FieldElement_add(three_x2, self.a), two_y), LAMBDA slope :
    Try(IntTimesFieldElement(2, self.x), LAMBDA two_x :
    With(FieldElement_sub(FieldElement_pow(slope, 2), two_x), LAMBDA x :
    Point(x, FieldElement_sub(FieldElement_mul(slope, FieldElement_sub(self.x, x)), self.y),
          self.a, self.b))))))

\* Point.__add__: the point, or the exception
Point_add(self, other) ==
    IF self.a # other.a \/ self.b # other.b THEN Raise("TypeError")
    ELSE IF self.x = NoneVal THEN Ok(other)
    ELSE IF other.x = NoneVal THEN Ok(self)
    ELSE IF self.x = other.x /\ self.y # other.y
    THEN Point(NoneVal, NoneVal, self.a, self.b)
    ELSE IF self.x # other.x THEN AddDistinct(self, other)
    ELSE IF Point_eq(self, other) THEN AddSame(self)
    ELSE Ok(NoneVal)

\* Point.__rmul__: the loop `while coef`
RECURSIVE RmulLoop(_, _, _)
RmulLoop(coef, current, result) ==
    IF coef = 0 THEN Ok(result)
    ELSE Try(IF coef % 2 = 1 THEN Point_add(result, current) ELSE Ok(result),
             LAMBDA added :
         Try(Point_add(current, current), LAMBDA doubled :
         RmulLoop(coef \div 2, doubled, added)))

Point_rmul(self, coefficient) ==
    RmulLoop(coefficient, self, Point(NoneVal, NoneVal, self.a, self.b).val)

\* S256Point(x, y) for integers x and y
S256Point(x, y) == Point(S256Field(x), S256Field(y), S256Field(A), S256Field(B))

\* S256Point.__rmul__
S256Point_rmul(self, coefficient) == Point_rmul(self, coefficient % N)

G == S256Point(2, 12).val

Signature(r, s) == [r |-> r, s |-> s]

\* S256Point.verify(z, sig): TRUE, FALSE, or the exception
S256Point_verify(self, z, sig) ==
    With(ModPow(sig.s, N - 2, N), LAMBDA s_inv :
    Try(S256Point_rmul(G, (z * s_inv) % N), LAMBDA uG :
    Try(S256Point_rmul(self, (sig.r * s_inv) % N), LAMBDA vP :
    Try(Point_add(uG, vP), LAMBDA total :
    IF total.x = NoneVal THEN Raise("AttributeError")
    ELSE Ok(total.x.num = sig.r)))))

\* PrivateKey(secret): the object, or the exception of secret * G
PrivateKey(secret) ==
    Try(S256Point_rmul(G, secret), LAMBDA point :
    Ok([secret |-> secret, point |-> point]))

\* PrivateKey.deterministic_k(z): the source derives k from secret and z
\* with HMAC-SHA256 (RFC 6979) and returns the first candidate in 1..N-1;
\* the model keeps that it is a function of (secret, z) into 1..N-1
deterministic_k(self, z) ==
    1 + ((7 * self.secret + 3 * (IF z > N THEN z - N ELSE z) + 5) % (N - 1))

\* PrivateKey.sign(z): the Signature, or the exception
PrivateKey_sign(self, z) ==
    With(deterministic_k(self, z), LAMBDA k :
    Try(S256Point_rmul(G, k), LAMBDA kG :
    IF kG.x = NoneVal THEN Raise("AttributeError")
    ELSE With(kG.x.num, LAMBDA r :
         With(((z + r * self.secret) * ModPow(k, N - 2, N)) % N, LAMBDA s :
         Ok(Signature(r, IF 2 * s > N THEN N - s ELSE s))))))

\* the points of the curve, the point at infinity among them
CurvePoints ==
    {Point(NoneVal, NoneVal, S256Field(A), S256Field(B)).val}
    \cup {S256Point(x, y).val : <<x, y>> \in
            {c \in (0..(P - 1)) \X (0..(P - 1)) : S256Point(c[1], c[2]).ok}}

\* the signature hashes of the ecc calls
EccZValues == 0..MaxZ \cup {N + 1}

(***************************************************************************)
(* network.py: the wire envelope and SimpleNode.wait_for.                  *)
(***************************************************************************)
TESTNET_NETWORK_MAGIC == <<249, 190, 180, 217>>
NETWORK_MAGIC == <<11, 17, 9, 7>>

\* the `command` attribute of each message class: b'version', b'verack',
\* b'ping', b'pong', b'headers'
command_of ==
    [VersionMessage |-> <<118, 101, 114, 115, 105, 111, 110>>,
     VerAckMessage |-> <<118, 101, 114, 97, 99, 107>>,
     PingMessage |-> <<112, 105, 110, 103>>,
     PongMessage |-> <<112, 111, 110, 103>>,
     HeadersMessage |-> <<104, 101, 97, 100, 101, 114, 115>>]

\* the width of the checksum field: 4 bytes, or the whole (scaled-down) digest
ChecksumLen == Min(4, HashLen)

\* NetworkEnvelope.__init__; the payload is kept in the attribute `paylaod`
NetworkEnvelope(command, payload, testnet) ==
    [command |-> command, paylaod |-> payload,
     magic |-> IF testnet THEN TESTNET_NETWORK_MAGIC ELSE NETWORK_MAGIC]

\* b.lstrip(b'\x00')
RECURSIVE LStrip(_)
LStrip(b) == IF b # <<>> /\ Head(b) = 0 THEN LStrip(Tail(b)) ELSE b

\* b.strip(b'\x00')
Strip(b) == Reverse(LStrip(Reverse(LStrip(b))))

\* hash256 of a Python int: hashlib.sha256 takes bytes only
hash256_of_int(n) == Raise("TypeError")

\* NetworkEnvelope.parse from the header's fields on: [ok, val, rest]
ParseAfterMagic(s, testnet) ==
    With(Read(s, 12), LAMBDA c :
    With(Read(c.rest, 4), LAMBDA l :
    With(Read(l.rest, ChecksumLen), LAMBDA k :
    With(Read(k.rest, little_endian_to_int(l.data)), LAMBDA pl :
    Try(hash256_of_int(little_endian_to_int(l.data)), LAMBDA digest :
    IF SubSeq(digest, 1, ChecksumLen) # k.data THEN Raise("IOError")
    ELSE [ok |-> TRUE, rest |-> pl.rest,
          val |-> NetworkEnvelope(Strip(c.data), pl.data, testnet)])))))

\* NetworkEnvelope.parse(s, testnet)
NetworkEnvelope_parse(s, testnet) ==
    With(Read(s, 4), LAMBDA m :
    IF m.data = <<>> THEN Raise("IOError")
    ELSE IF m.data # (IF testnet THEN NETWORK_MAGIC ELSE TESTNET_NETWORK_MAGIC)
    THEN Raise("SyntaxError")
    ELSE ParseAfterMagic(m.rest, testnet))

\* NetworkEnvelope.serialize
NetworkEnvelope_serialize(self) ==
    self.magic
    \o self.command \o Bytes(12 - Len(self.command), 0)
    \o int_to_little_endian(Len(self.paylaod), 4)
    \o SubSeq(hash256(self.paylaod), 1, ChecksumLen)
    \o self.paylaod

(***************************************************************************)
(* Initial state: no call is running.                                      *)
(***************************************************************************)
(***************************************************************************)
(* tx.py: Tx.sign_input, with Signature.der and S256Point.sec of ecc.py.   *)
(***************************************************************************)
\* n.to_bytes(32, 'big')
to_bytes_big(n) == Reverse(int_to_little_endian(n, 32))

\* Signature.der, one of the two integers: the leading zeros are stripped,
\* a zero byte is put before a high bit; rbin[0] of an empty rbin raises
DerInteger(n) ==
    With(LStrip(to_bytes_big(n)), LAMBDA bin :
    IF bin = <<>> THEN Raise("IndexError")
    ELSE With(IF bin[1] >= 128 THEN <<0>> \o bin ELSE bin, LAMBDA padded :
         Ok(<<2, Len(padded)>> \o padded)))

\* Signature.der()
Signature_der(self) ==
    Try(DerInteger(self.r), LAMBDA rpart :
    Try(DerInteger(self.s), LAMBDA spart :
    Ok(<<48, Len(rpart \o spart)>> \o rpart \o spart)))

\* S256Point.sec(), compressed; self.y.num of the point at infinity raises
S256Point_sec(self) ==
    IF self.y = NoneVal THEN Raise("AttributeError")
    ELSE Ok(<<IF self.y.num % 2 = 0 THEN 2 ELSE 3>> \o to_bytes_big(self.x.num))

\* Tx.sign_input, from private_key.sign(z) on: [ok, val | err, cache, tx]
SignWith(c, tx, input_index, private_key, z) ==
    With(PrivateKey_sign(private_key, z), LAMBDA signed :
    IF ~signed.ok THEN [ok |-> FALSE, err |-> signed.err, cache |-> c, tx |-> tx]
    ELSE With(Signature_der(signed.val), LAMBDA der :
    IF ~der.ok THEN [ok |-> FALSE, err |-> der.err, cache |-> c, tx |-> tx]
    ELSE With(S256Point_sec(private_key.point), LAMBDA sec :
    IF ~sec.ok THEN [ok |-> FALSE, err |-> sec.err, cache |-> c, tx |-> tx]
    ELSE With([tx EXCEPT !.tx_ins[input_index + 1].script_sig =
                  <<Data(der.val \o int_to_little_endian(SIGHASH_ALL, 1)),
                    Data(sec.val)>>], LAMBDA signed_tx :
    With(Tx_verify_input(c, signed_tx, input_index), LAMBDA verdict :
    IF ~verdict.ok
    THEN [ok |-> FALSE, err |-> verdict.err, cache |-> verdict.cache, tx |-> signed_tx]
    ELSE [ok |-> TRUE, val |-> verdict.val, cache |-> verdict.cache,
          tx |-> signed_tx])))))

\* Tx.sign_input(input_index, private_key): [ok, val | err, cache, tx], tx
\* the transaction as the call leaves it
Tx_sign_input(c, tx, input_index, private_key) ==
    With(Tx_sig_hash(c, tx, input_index), LAMBDA z :
    IF ~z.ok THEN [ok |-> FALSE, err |-> z.err, cache |-> z.cache, tx |-> tx]
    ELSE SignWith(z.cache, tx, input_index, private_key, z.val))

\* the PrivateKey objects that exist: those the constructor returns
SigningKeys == {PrivateKey(secret).val : secret \in {s \in 0..N : PrivateKey(s).ok}}

NoBlock == [total |-> 0, hashes |-> <<>>, flags |-> <<>>, merkle_root |-> <<>>]
NoTree == [total |-> 0, max_depth |-> 0, nodes |-> <<<<None>>>>,
           current_depth |-> 0, current_index |-> 0]

NoShape == [total |-> 0, max_depth |-> 0, num_items |-> <<>>,
            current_depth |-> 0, current_index |-> 0]

Idle ==
    /\ mt_shape = NoShape
    /\ pt_pc = "idle" /\ iv_pc = "idle" /\ sc_pc = "idle" /\ ev_pc = "idle"
    /\ tx_call = "idle" /\ ecc_call = "idle" /\ hp_call = "idle"
    /\ net_call = "idle"

Init ==
    /\ mt = NoTree
    /\ mt_shape = NoShape
    /\ flag_bits = <<>>
    /\ hashes = <<>>
    /\ pt_pc = "idle"
    /\ mb = NoBlock
    /\ iv_pc = "idle"
    /\ iv_result = FALSE
    /\ sc_in = <<>>
    /\ sc_ser = NoResult
    /\ sc_out = NoResult
    /\ sc_pc = "idle"
    /\ ev_script = <<>>
    /\ ev_z = 0
    /\ ev_cmds = <<>>
    /\ ev_stack = <<>>
    /\ ev_altstack = <<>>
    /\ ev_pc = "idle"
    /\ ev_bad = "none"
    /\ ev_end = <<>>
    /\ ev_called = <<>>
    /\ cache = [id \in TxIds |-> Absent]
    /\ cache_obj = [id \in TxIds |-> 0]
    /\ fetch_args = <<>>
    /\ tx_call = "idle"
    /\ tx_obj = NoTx
    /\ tx_arg = 0
    /\ tx_ser = NoResult
    /\ tx_parsed = NoResult
    /\ tx_ret = NoResult
    /\ tx_after = NoTx
    /\ ecc_call = "idle"
    /\ ecc_args = <<>>
    /\ ecc_key = NoResult
    /\ ecc_ret = NoResult
    /\ hp_call = "idle"
    /\ hp_arg = <<>>
    /\ hp_list = [val |-> <<>>, is_current_level |-> FALSE]
    /\ hp_mid = NoResult
    /\ hp_ret = NoResult
    /\ net_call = "idle"
    /\ net_arg = <<>>
    /\ net_ser = NoResult
    /\ net_ret = NoResult
    /\ net_stream = <<>>
    /\ net_command = <<>>
    /\ net_sent = <<>>

(***************************************************************************)
(* Merkle actions.                                                         *)
(***************************************************************************)
\* MerkleTree(total).populate_tree(fb, hs) called directly
PopulateCall ==
    /\ Idle
    /\ \E total \in 1..MaxTotal, fb \in SeqsUpTo({0, 1}, MaxFlagBits),
          hs \in SeqsUpTo(ProofHashes, MaxHashes) :
        /\ mt' = MerkleTree(total)
        /\ flag_bits' = fb
        /\ hashes' = hs
    /\ pt_pc' = "loop"
    /\ UNCHANGED <<mb, iv_pc, iv_result, mt_shape, nonMerkleVars>>

\* one iteration of the while loop
PopulateStep ==
    /\ pt_pc = "loop"
    /\ LoopCond(mt)
    /\ LET r == PopulateIter(mt, flag_bits, hashes) IN
        /\ mt' = r.t
        /\ flag_bits' = r.fb
        /\ hashes' = r.hs
        /\ pt_pc' = r.pc
    /\ UNCHANGED <<mb, iv_pc, iv_result, mt_shape, nonMerkleVars>>

\* the loop has ended: the leftover checks, then return
PopulateFinish ==
    /\ pt_pc = "loop"
    /\ ~LoopCond(mt)
    /\ pt_pc' = PopulateChecks(flag_bits, hashes)
    /\ UNCHANGED <<mt, flag_bits, hashes, mb, iv_pc, iv_result, mt_shape, nonMerkleVars>>

\* MerkleTree(total): the constructor alone
NewMerkleTree ==
    /\ Idle
    /\ \E total \in (1..MaxShapeTotal) \cup {2^29 - 1, 2^29, 2^29 + 1} :
        mt_shape' = TreeShape(total)
    /\ UNCHANGED <<mt, flag_bits, hashes, pt_pc, mb, iv_pc, iv_result, nonMerkleVars>>

\* MerkleBlock.is_valid(): builds the lists and the tree, calls populate_tree
IsValidCall ==
    /\ Idle
    /\ \E block \in MerkleBlocks :
        /\ mb' = block
        /\ flag_bits' = bytes_to_bit_field(block.flags)
        /\ hashes' = [i \in 1..Len(block.hashes) |-> Reverse(block.hashes[i])]
        /\ mt' = MerkleTree(block.total)
    /\ pt_pc' = "loop"
    /\ iv_pc' = "called"
    /\ UNCHANGED <<iv_result, mt_shape, nonMerkleVars>>

\* populate_tree returned: is_valid returns the comparison
IsValidReturn ==
    /\ iv_pc = "called"
    /\ pt_pc = "returned"
    /\ iv_result' = RootMatches(mt, mb)
    /\ iv_pc' = "returned"
    /\ UNCHANGED <<mt, flag_bits, hashes, pt_pc, mb, mt_shape, nonMerkleVars>>

\* populate_tree raised: the exception leaves is_valid
IsValidRaise ==
    /\ iv_pc = "called"
    /\ pt_pc \in PopulateErrors
    /\ iv_pc' = "raised"
    /\ UNCHANGED <<mt, flag_bits, hashes, pt_pc, mb, iv_result, mt_shape, nonMerkleVars>>

NextPopulate == PopulateCall \/ PopulateStep \/ PopulateFinish

NextMerkle == NextPopulate \/ NewMerkleTree \/ IsValidCall \/ IsValidReturn \/ IsValidRaise

SpecMerkle == Init /\ [][NextMerkle]_vars

\* A call of populate_tree runs to its end: the library is single-threaded
\* and nothing suspends the loop.
FairSpecPopulate ==
    Init /\ [][NextPopulate]_vars /\ WF_vars(PopulateStep) /\ WF_vars(PopulateFinish)

(***************************************************************************)
(* Claims about the Merkle proof code.                                     *)
(***************************************************************************)
PopulateEnded == pt_pc \in {"returned", "RuntimeError"}

\* C6: when is_valid() returns, its value is true exactly when the root
\* populate_tree reconstructed, byte-reversed, equals the header's
\* merkle_root; a mismatch is the value FALSE, and is_valid raises only
\* when populate_tree itself raised.
C6_IsValidVerdict ==
    /\ iv_pc = "returned" =>
          /\ pt_pc = "returned"
          /\ iv_result \in BOOLEAN
          /\ iv_result <=> (Reverse(NodeAt(mt, 0, 0)) = mb.merkle_root)
    /\ iv_pc = "raised" => pt_pc \in PopulateErrors

C6_Witness ==
    /\ iv_pc = "returned"
    /\ iv_result
    /\ mt.total = 3
    /\ Reverse(mb.merkle_root) # mb.merkle_root

C6_WitnessMismatch ==
    /\ iv_pc = "returned"
    /\ ~iv_result
    /\ mt.total = 3

\* C7 as stated: once the root is filled, populate_tree raises exactly when
\* a hash or a flag bit is left, so it returns only with both lists empty.
C7_StrictConsumption ==
    PopulateEnded =>
        (pt_pc = "RuntimeError" <=> (hashes # <<>> \/ flag_bits # <<>>))

\* C7 amended: once the root is filled, populate_tree raises exactly when a
\* hash is left or a flag bit that is left is 1; it returns normally when the
\* hashes are consumed and every flag bit left is 0 (the padding of the last
\* flag byte).
C7_LeftoverCheck ==
    PopulateEnded =>
        /\ NodeAt(mt, 0, 0) # None
        /\ pt_pc = "RuntimeError" <=>
              (hashes # <<>> \/ \E i \in 1..Len(flag_bits) : flag_bits[i] = 1)

C7_Witness ==
    /\ pt_pc = "RuntimeError"
    /\ hashes # <<>>
    /\ \A i \in 1..Len(flag_bits) : flag_bits[i] = 0
    /\ mt.total = 3

\* C8: populate_tree terminates: a running loop leads to a return or an
\* exception; it returns only with the root slot filled, and it stops with
\* IndexError only with the root unset and a list exhausted.
C8_PopulateTerminates ==
    /\ [](pt_pc = "returned" => NodeAt(mt, 0, 0) # None)
    /\ [](pt_pc = "IndexError" =>
            NodeAt(mt, 0, 0) = None /\ (flag_bits = <<>> \/ hashes = <<>>))
    /\ (pt_pc = "loop") ~> (pt_pc \in {"returned"} \cup PopulateErrors)

C8_Witness ==
    /\ pt_pc = "returned"
    /\ mt.total = 3
    /\ mt.current_depth = -1
    /\ NodeAt(mt, 2, 2) # None

\* an iteration of the loop has completed
IterationDone == pt_pc = "loop" /\ pt_pc' = "loop" /\ mt' # mt

\* the cursor's node has been given the next hash, which is taken off the
\* list, and the cursor has gone up
SetFromNextHash ==
    /\ hashes # <<>>
    /\ hashes' = Tail(hashes)
    /\ mt'.nodes = [mt.nodes EXCEPT ![mt.current_depth + 1][mt.current_index + 1]
                                        = Head(hashes)]
    /\ mt'.current_depth = mt.current_depth - 1
    /\ mt'.current_index = mt.current_index \div 2

\* C20: an iteration of populate_tree at a leaf takes one flag bit and one
\* hash off the front of the lists and sets the leaf to that hash; at an
\* internal node whose left child is unset it takes one flag bit off the
\* front, and on 0 sets the node from the next hash and goes up, on 1
\* descends left and takes no hash; any other iteration leaves both lists
\* as they are.
C20_ConsumptionOrder ==
    [][IterationDone =>
        IF mt.current_depth = mt.max_depth
        THEN flag_bits # <<>> /\ flag_bits' = Tail(flag_bits) /\ SetFromNextHash
        ELSE IF mt.nodes[mt.current_depth + 2][mt.current_index * 2 + 1] = None
        THEN /\ flag_bits # <<>>
             /\ flag_bits' = Tail(flag_bits)
             /\ IF Head(flag_bits) = 0 THEN SetFromNextHash
                ELSE /\ hashes' = hashes
                     /\ mt'.nodes = mt.nodes
                     /\ mt'.current_depth = mt.current_depth + 1
                     /\ mt'.current_index = mt.current_index * 2
        ELSE flag_bits' = flag_bits /\ hashes' = hashes]_vars

\* in a tree of three leaves the loop has descended left twice and set the
\* first leaf and is on its way to the second, with a hash still to take
C20_Witness ==
    /\ pt_pc = "loop"
    /\ mt.total = 3
    /\ mt.nodes[3][1] # None
    /\ mt.nodes[3][2] = None
    /\ mt.nodes[1][1] = None
    /\ hashes # <<>>

\* the slots of the children of the cursor's node: the left one, and the
\* right one or, on an odd level, the left one again
\* C22 as stated: a new MerkleTree(total) has max_depth = ceil(log2(total)),
\* max_depth + 1 levels, level d holding ceil(total / 2^(max_depth - d)) slots
\* (one at level 0, total at level max_depth) and the cursor at (0, 0), for
\* every total >= 1.
ShapeAsStated ==
    /\ 2^mt_shape.max_depth >= mt_shape.total
    /\ mt_shape.max_depth > 0 => 2^(mt_shape.max_depth - 1) < mt_shape.total
    /\ Len(mt_shape.num_items) = mt_shape.max_depth + 1
    /\ \A d \in 0..mt_shape.max_depth :
          /\ mt_shape.num_items[d + 1] * 2^(mt_shape.max_depth - d) >= mt_shape.total
          /\ (mt_shape.num_items[d + 1] - 1) * 2^(mt_shape.max_depth - d) < mt_shape.total
    /\ mt_shape.num_items[1] = 1
    /\ mt_shape.num_items[mt_shape.max_depth + 1] = mt_shape.total
    /\ mt_shape.current_depth = 0
    /\ mt_shape.current_index = 0
C22_ConstructorShape == mt_shape # NoShape => ShapeAsStated

\* C22, what the code does: the shape is as stated for every total but 2^29,
\* where max_depth is 30 and the tree has 31 levels, the first two of one
\* slot each; the levels of a small tree are lists of that many unset slots.
C22_ShapeButFloatLog ==
    mt_shape # NoShape =>
        /\ mt_shape.total # 2^29 => ShapeAsStated
        /\ mt_shape.total = 2^29 =>
              /\ mt_shape.max_depth = 30
              /\ Len(mt_shape.num_items) = 31
              /\ mt_shape.num_items[1] = 1 /\ mt_shape.num_items[2] = 1
              /\ mt_shape.num_items[31] = 2^29
        /\ mt_shape.total <= MaxTotal =>
              MerkleTree(mt_shape.total) =
                  [total |-> mt_shape.total,
                   max_depth |-> mt_shape.max_depth,
                   nodes |-> [d \in 1..Len(mt_shape.num_items) |->
                                [i \in 1..mt_shape.num_items[d] |-> None]],
                   current_depth |-> 0,
                   current_index |-> 0]

\* C23: whenever populate_tree reads or writes a slot the cursor is in range
\* (0 <= current_depth <= max_depth, 0 <= current_index < slots of the level);
\* left() and right() never move to a slot that does not exist; a slot that
\* is set is never overwritten.
SlotExists(t, depth, index) ==
    /\ 0 <= depth /\ depth <= t.max_depth
    /\ 0 <= index /\ index < Len(t.nodes[depth + 1])
CursorInRange == SlotExists(mt, mt.current_depth, mt.current_index)
MovedDown == mt'.current_depth = mt.current_depth + 1
SetSlotsKept ==
    \A d \in 1..Len(mt.nodes) : \A i \in 1..Len(mt.nodes[d]) :
        mt.nodes[d][i] # None => mt'.nodes[d][i] = mt.nodes[d][i]
CursorStep ==
    pt_pc = "loop" /\ mt' # mt =>
        /\ CursorInRange
        /\ MovedDown => SlotExists(mt', mt'.current_depth, mt'.current_index)
        /\ SetSlotsKept
C23_CursorInRange ==
    /\ [](pt_pc = "loop" /\ LoopCond(mt) => CursorInRange)
    /\ [][CursorStep]_vars
\* a tree of three leaves filled in: left() and right() both taken, the odd
\* level's last parent written, and the cursor left above the root
C23_Witness ==
    /\ pt_pc = "returned" /\ mt.total = 3 /\ mt.current_depth = -1
    /\ \A d \in 1..3 : \A i \in 1..Len(mt.nodes[d]) : mt.nodes[d][i] # None

LeftChild == mt.nodes[mt.current_depth + 2][mt.current_index * 2 + 1]
RightOrLeftChild ==
    mt.nodes[mt.current_depth + 2]
            [IF Len(mt.nodes[mt.current_depth + 2]) > mt.current_index * 2 + 1
             THEN mt.current_index * 2 + 2 ELSE mt.current_index * 2 + 1]

\* an iteration at an internal node whose left child is set: it descends
\* right when the right child exists and is unset, and otherwise sets the
\* node to the parent hash of its children and goes up
InternalNodeStep ==
    IterationDone /\ mt.current_depth # mt.max_depth /\ LeftChild # None =>
        IF RightOrLeftChild = None
        THEN /\ mt'.nodes = mt.nodes
             /\ mt'.current_depth = mt.current_depth + 1
             /\ mt'.current_index = mt.current_index * 2 + 1
        ELSE /\ mt'.nodes =
                  [mt.nodes EXCEPT ![mt.current_depth + 1][mt.current_index + 1]
                                      = merkle_parent(LeftChild, RightOrLeftChild)]
             /\ mt'.current_depth = mt.current_depth - 1
             /\ mt'.current_index = mt.current_index \div 2

\* every internal slot that was computed is the parent hash of its children
ComputedSlotsAreParents ==
    \A d \in 1..(Len(mt.nodes) - 1) : \A i \in 1..Len(mt.nodes[d]) :
        mt.nodes[d][i] # None /\ mt.nodes[d + 1][2 * i - 1] # None =>
            mt.nodes[d][i]
                = merkle_parent(mt.nodes[d + 1][2 * i - 1],
                                mt.nodes[d + 1][IF 2 * i <= Len(mt.nodes[d + 1])
                                                THEN 2 * i ELSE 2 * i - 1])

\* C21: at an internal node whose left child is set, populate_tree descends
\* right if the right child exists and is unset, sets the node to
\* merkle_parent(left, right) if both children are set and to
\* merkle_parent(left, left) if there is no right child, and then goes up;
\* so on return every computed internal slot is the parent hash of its
\* children.
C21_InternalNodes ==
    /\ [][InternalNodeStep]_vars
    /\ [](pt_pc = "returned" => ComputedSlotsAreParents)

\* populate_tree has returned from a tree of three leaves whose second
\* internal node was computed from its only child
C21_Witness ==
    /\ pt_pc = "returned"
    /\ mt.total = 3
    /\ mt.nodes[3][3] # None
    /\ mt.nodes[2][2] = merkle_parent(mt.nodes[3][3], mt.nodes[3][3])
    /\ mt.nodes[3][1] # None

\* s.serialize()
ScriptSerialize ==
    /\ Idle
    /\ \E cmds \in CodecScripts :
        /\ sc_in' = cmds
        /\ sc_ser' = Script_serialize(cmds)
    /\ sc_pc' = "serialized"
    /\ UNCHANGED <<sc_out, nonCodecVars>>

\* Script.parse(BytesIO(those bytes))
ScriptParse ==
    /\ sc_pc = "serialized"
    /\ sc_ser.ok
    /\ sc_out' = Script_parse(sc_ser.val)
    /\ sc_pc' = "parsed"
    /\ UNCHANGED <<sc_in, sc_ser, nonCodecVars>>

\* the scripts raw_serialize is run on: the codec's, and a push that is too long
RawCmds == CodecCmds \cup {Data(Bytes(521, 7))}
RawScripts == SeqsUpTo(RawCmds, MaxCodecCmds)

\* s.raw_serialize()
ScriptRawSerialize ==
    /\ Idle
    /\ \E cmds \in RawScripts :
        /\ sc_in' = cmds
        /\ sc_ser' = raw_serialize(cmds)
    /\ sc_pc' = "raw"
    /\ UNCHANGED <<sc_out, nonCodecVars>>

\* the encoded commands the byte streams given to Script.parse are put
\* together from: opcodes, and the data push 07 behind each kind of prefix
WireItems ==
    {<<0>>, <<79>>, <<118>>, <<1, 7>>, <<76, 1, 7>>, <<77, 1, 0, 7>>,
     <<78, 1, 0, 0, 0, 7>>}

RECURSIVE Concat(_)
Concat(items) == IF items = <<>> THEN <<>> ELSE Head(items) \o Concat(Tail(items))

\* Script.parse(BytesIO(stream)) on a stream that was not made by serialize:
\* a varint length (that of the payload, or one less) and the payload
ScriptParseBytes ==
    /\ Idle
    /\ \E items \in SeqsUpTo(WireItems, MaxCodecCmds), short \in {0, 1} :
        /\ Len(Concat(items)) >= short
        /\ sc_in' = items
        /\ sc_ser' = Ok(encode_varint(Len(Concat(items)) - short) \o Concat(items))
        /\ sc_out' = Script_parse(encode_varint(Len(Concat(items)) - short)
                                    \o Concat(items))
    /\ sc_pc' = "parsed_bytes"
    /\ UNCHANGED nonCodecVars

NextCodec == ScriptSerialize \/ ScriptParse \/ ScriptRawSerialize \/ ScriptParseBytes

SpecCodec == Init /\ [][NextCodec]_vars

\* C10: every script of opcodes and data pushes of 1 to 520 bytes
\* serializes, and parsing the bytes gives back the same command list.
C10_ScriptRoundTrip ==
    /\ sc_pc = "serialized" => sc_ser.ok
    /\ sc_pc = "parsed" => sc_out.ok /\ sc_out.cmds = sc_in

\* the round trip on the scripts that serialize to fewer than 253 bytes
C10_ShortScriptsRoundTrip ==
    sc_pc = "parsed" /\ Len(sc_ser.val) < 253 => sc_out.ok /\ sc_out.cmds = sc_in

\* C27 as stated: Script.parse reads the varint length and that many bytes;
\* a leading byte 1..75 pushes the next n bytes, 76 reads a 1-byte length,
\* 77 a 2-byte and 78 a 4-byte little-endian length and pushes that many
\* bytes, any other byte is an opcode; when the bytes consumed differ from
\* the declared length parsing fails.
StatedCmd(item) ==
    IF Head(item) \in 1..75 THEN Data(Tail(item))
    ELSE IF Head(item) = 76 THEN Data(SubSeq(item, 3, Len(item)))
    ELSE IF Head(item) = 77 THEN Data(SubSeq(item, 4, Len(item)))
    ELSE IF Head(item) = 78 THEN Data(SubSeq(item, 6, Len(item)))
    ELSE Op(Head(item))
DeclaredLength == sc_ser.val[1]
PayloadLength == Len(sc_ser.val) - 1
EndsInsidePush == sc_in # <<>> /\ Len(sc_in[Len(sc_in)]) > 1
C27_ParseClassifies ==
    sc_pc = "parsed_bytes" =>
        /\ DeclaredLength = PayloadLength =>
              /\ sc_out.ok
              /\ sc_out.cmds = [i \in 1..Len(sc_in) |-> StatedCmd(sc_in[i])]
              /\ sc_out.rest = <<>>
        /\ DeclaredLength # PayloadLength /\ EndsInsidePush => ~sc_out.ok

\* C27, what the code does: 78 is taken as an opcode and the bytes behind it
\* are parsed as commands of their own: 01 00 is a push of one byte, 00 and
\* 00 are opcodes, and 07 is a push of seven bytes that overruns the declared
\* length.  Streams without 78 are parsed as stated.
Has78(items) == \E i \in 1..Len(items) : Head(items[i]) = 78
AllButLast(items) == SubSeq(items, 1, Len(items) - 1)
C27_Takes78AsOpcode ==
    sc_pc = "parsed_bytes" =>
        /\ DeclaredLength = PayloadLength =>
              IF Has78(sc_in) THEN sc_out = Raise("SyntaxError")
              ELSE /\ sc_out.ok
                   /\ sc_out.cmds = [i \in 1..Len(sc_in) |-> StatedCmd(sc_in[i])]
                   /\ sc_out.rest = <<>>
        /\ DeclaredLength # PayloadLength /\ EndsInsidePush =>
              IF Head(sc_in[Len(sc_in)]) = 78 /\ ~Has78(AllButLast(sc_in))
              THEN /\ sc_out.ok
                   /\ sc_out.cmds =
                          [i \in 1..(Len(sc_in) - 1) |-> StatedCmd(sc_in[i])]
                          \o <<Op(78), Data(<<0>>), Op(0), Op(0)>>
                   /\ sc_out.rest = <<7>>
              ELSE sc_out = Raise("SyntaxError")

\* the prefix the push-length rule gives a data push of this length
CanonicalPrefix(length) ==
    IF length < 76 THEN <<length>>
    ELSE IF length < 256 THEN <<76, length>>
    ELSE <<77, length % 256, length \div 256>>

RECURSIVE CanonicalRaw(_)
CanonicalRaw(cmds) ==
    IF cmds = <<>> THEN <<>>
    ELSE (IF IsOp(Head(cmds)) THEN <<Head(cmds).op>>
          ELSE CanonicalPrefix(Len(Head(cmds).data)) \o Head(cmds).data)
         \o CanonicalRaw(Tail(cmds))

TooLong(cmds) == \E i \in 1..Len(cmds) : ~IsOp(cmds[i]) /\ Len(cmds[i].data) > 520

\* C11: raw_serialize writes a push of fewer than 76 bytes as its length byte
\* and the data, of 76 to 255 bytes as OP_PUSHDATA1 and a 1-byte length, of
\* 256 to 520 bytes as OP_PUSHDATA2 and a 2-byte little-endian length; it
\* fails on a longer push and on no push of 1 to 520 bytes.
C11_PushPrefixSelection ==
    sc_pc = "raw" =>
        IF TooLong(sc_in) THEN ~sc_ser.ok
        ELSE sc_ser = Ok(CanonicalRaw(sc_in))

\* what the code does: the same, except that a push of exactly 75 bytes
\* raises ValueError
C11_PrefixExcept75 ==
    sc_pc = "raw" =>
        IF TooLong(sc_in) \/ \E i \in 1..Len(sc_in) :
                                 ~IsOp(sc_in[i]) /\ Len(sc_in[i].data) = 75
        THEN sc_ser = Raise("ValueError")
        ELSE sc_ser = Ok(CanonicalRaw(sc_in))

\* Script(cmds).evaluate(z): the locals are set up
EvaluateCall ==
    /\ Idle
    /\ \E cmds \in EvalScripts, z \in ZValues :
        /\ ev_script' = cmds
        /\ ev_cmds' = cmds
        /\ ev_z' = z
    /\ ev_stack' = <<>>
    /\ ev_altstack' = <<>>
    /\ ev_pc' = "run"
    /\ ev_bad' = "none"
    /\ UNCHANGED <<ev_end, ev_called, nonEvalVars>>

\* one iteration of the command loop
EvaluateStep ==
    /\ ev_pc = "run"
    /\ Len(ev_cmds) > 0
    /\ LET r == EvalIter(ev_cmds, ev_stack) IN
        /\ ev_cmds' = r.cmds
        /\ ev_stack' = r.stack
        /\ ev_pc' = r.pc
        /\ ev_bad' = r.bad
    /\ ev_called' = IF IsOp(Head(ev_cmds)) THEN <<Dispatch(Head(ev_cmds).op)>> ELSE <<>>
    /\ UNCHANGED <<ev_script, ev_z, ev_altstack, ev_end, nonEvalVars>>

\* the loop has ended: the verdict on the stack (stack.pop() takes its top)
EvaluateFinish ==
    /\ ev_pc = "run"
    /\ Len(ev_cmds) = 0
    /\ ev_end' = ev_stack
    /\ ev_pc' = EvalVerdict(ev_stack)
    /\ ev_stack' = IF Len(ev_stack) = 0 THEN ev_stack ELSE Pop(ev_stack)
    /\ UNCHANGED <<ev_script, ev_z, ev_cmds, ev_altstack, ev_bad, ev_called, nonEvalVars>>

NextEval == EvaluateCall \/ EvaluateStep \/ EvaluateFinish

SpecEval == Init /\ [][NextEval]_vars

\* C25 as stated: the handler of 99 and 100 gets the stack and the remaining
\* commands, of 107 and 108 the stack and the altstack, of 172, 173, 174 and
\* 175 the stack and z, of every other opcode the stack alone.
StatedArgs(cmd) ==
    IF cmd \in {99, 100} THEN <<"stack", "cmds">>
    ELSE IF cmd \in {107, 108} THEN <<"stack", "altstack">>
    ELSE IF cmd \in {172, 173, 174, 175} THEN <<"stack", "z">>
    ELSE <<"stack">>
C25_HandlerArguments ==
    ev_called # <<>> => ev_called[1].args = StatedArgs(ev_called[1].op)

\* C25, what the code does: only 118, 169 and 170 have a handler, called with
\* the stack alone; for every other opcode the lookup raises KeyError and no
\* handler is called.
C25_OnlyTableHandlersCalled ==
    ev_called # <<>> =>
        IF ev_called[1].op \in {118, 169, 170}
        THEN ev_called[1].args = <<"stack">>
        ELSE ev_called[1].args = <<>> /\ ev_pc = "KeyError"

\* C26 as stated: when a data element has been pushed and the remaining
\* commands are exactly [0xa9, a 20-byte push, 0x87], evaluate removes the
\* three and either returns False (hash160 of the redeem script is not the
\* 20-byte value) or goes on with the commands parsed from
\* encode_varint(len(redeem)) + redeem as the remaining commands.
AtP2SH == ev_pc = "run" /\ ev_cmds # <<>> /\ ~IsOp(Head(ev_cmds)) /\ IsP2SH(Tail(ev_cmds))
RedeemCmds ==
    Script_parse(encode_varint(Len(Head(ev_cmds).data)) \o Head(ev_cmds).data)
P2SHStep ==
    AtP2SH =>
        \/ ev_pc' = "False"
        \/ /\ ev_pc' = "run"
           /\ RedeemCmds.ok
           /\ ev_cmds' = RedeemCmds.cmds
C26_P2SHRedeem == [][P2SHStep]_vars

\* C26, what the code does: the three commands are removed, op_hash160 pops
\* the redeem script off the stack and hash160 raises TypeError; the
\* comparison and the parse of the redeem script are not reached.
P2SHStepRaises ==
    AtP2SH =>
        /\ ev_pc' = "TypeError"
        /\ ev_cmds' = <<>>
        /\ ev_stack' = ev_stack
C26_P2SHRaises == [][P2SHStepRaises]_vars

EvalFinished == ev_pc \in {"True", "False", "KeyError", "TypeError"}

\* C4: evaluate returns True exactly when every command ran without a
\* handler returning False (or raising) and the stack left by the last
\* command is not empty and its top is not the empty byte string.
C4_EvaluateVerdict ==
    EvalFinished =>
        (ev_pc = "True" <=>
            /\ ev_bad = "none"
            /\ ev_cmds = <<>>
            /\ ev_end # <<>>
            /\ ev_end[Len(ev_end)] # <<>>)

C4_Witness ==
    /\ ev_pc = "True"
    /\ Len(ev_script) = 3
    /\ IsOp(ev_script[3])
    /\ Len(ev_end) = 2

C4_WitnessEmptyTop ==
    /\ ev_pc = "False"
    /\ ev_bad = "none"
    /\ ev_end # <<>>

\* C5: a handler that returns False makes evaluate return False; evaluate
\* does not raise because an opcode failed.
C5_OpFailureReturnsFalse ==
    EvalFinished /\ ev_bad = "False" => ev_pc = "False"


(***************************************************************************)
(* Tx actions.                                                             *)
(***************************************************************************)
Repeat(x, n) == [i \in 1..n |-> x]

\* the smallest count that encode_varint does not write as one byte
VarintLimit == 253

\* inputs and outputs of the transactions that are serialized and parsed;
\* the long lists hold 253 copies of one element, the first count that
\* encode_varint writes in three bytes, and their bytes are such that every
\* integer the parser reads back stays below 2^31
CodecTxIns ==
    {TxIn(<<1, 2>>, 0, <<>>, 1), TxIn(<<3, 4>>, 1, <<Data(<<1>>), Op(118)>>, 0)}
CodecTxOuts == {TxOut(3, <<Op(118)>>), TxOut(9, <<>>)}
CodecTxs ==
    {Tx(1, ins, outs, locktime, FALSE) :
        ins \in SeqsUpTo(CodecTxIns, MaxTxIns)
                \cup {Repeat(TxIn(<<0, 0>>, 0, <<>>, 1), VarintLimit)},
        outs \in SeqsUpTo(CodecTxOuts, MaxTxOuts) \cup {Repeat(TxOut(3, <<>>), VarintLimit)},
        locktime \in {0, 7}}

\* the transactions that are verified: their inputs spend an output of the
\* served transaction (index 0 or 1), an output it does not have (index 2),
\* or an output of a transaction the server does not know
SpendTxIns ==
    {TxIn(IdA, 0, <<>>, 1), TxIn(IdA, 1, <<>>, 1),
     TxIn(IdA, 2, <<>>, 1), TxIn(IdB, 0, <<>>, 1)}
SpendTxs ==
    {Tx(1, ins, outs, 0, testnet) :
        ins \in SeqsUpTo(SpendTxIns, MaxTxIns),
        outs \in SeqsUpTo(CodecTxOuts, MaxTxOuts),
        testnet \in BOOLEAN}

\* the Tx objects behind the entries after calls of fetch without fresh:
\* Tx.parse made a first object for each entry that was filled
FilledObjects(c, c2, objs) ==
    [id \in TxIds |-> IF c[id] = Absent /\ c2[id] # Absent THEN 1 ELSE objs[id]]

\* how many fetch calls the application has made
FetchCalls == IF fetch_args = <<>> THEN 0 ELSE fetch_args[1].call

\* TxFetcher.fetch(tx_id, testnet, fresh), called by the application
TxFetch ==
    /\ Idle
    /\ \E tx_id \in TxIds, testnet \in BOOLEAN, fresh \in BOOLEAN :
        /\ FetchCalls < MaxFetchCalls
        /\ cache' = Fetch(cache, tx_id, testnet, fresh).cache
        /\ cache_obj' = IF Fetch(cache, tx_id, testnet, fresh).ok
                           /\ (fresh \/ cache[tx_id] = Absent)
                        THEN [cache_obj EXCEPT ![tx_id] = @ + 1]
                        ELSE cache_obj
        /\ fetch_args' = <<[call |-> FetchCalls + 1,
                            tx_id |-> tx_id, testnet |-> testnet, fresh |-> fresh,
                            returned |-> Fetch(cache, tx_id, testnet, fresh).ok]>>
    /\ UNCHANGED <<tx_call, tx_obj, tx_arg, tx_ser, tx_parsed, tx_ret, tx_after, nonTxVars>>

\* tx.serialize()
TxSerialize ==
    /\ Idle
    /\ \E tx \in CodecTxs :
        /\ tx_obj' = tx
        /\ tx_ser' = Tx_serialize(tx)
    /\ tx_call' = "serialize"
    /\ UNCHANGED <<cache, cache_obj, fetch_args, tx_arg, tx_parsed, tx_ret, tx_after, nonTxVars>>

\* Tx.parse(BytesIO(those bytes))
TxParse ==
    /\ tx_call = "serialize"
    /\ tx_ser.ok
    /\ tx_parsed' = Tx_parse(tx_ser.val, FALSE)
    /\ tx_call' = "parse"
    /\ UNCHANGED <<cache, cache_obj, fetch_args, tx_obj, tx_arg, tx_ser, tx_ret, tx_after,
                   nonTxVars>>

\* tx.sig_hash(input_index), for a valid input index
TxSigHash ==
    /\ Idle
    /\ \E tx \in SpendTxs :
        \E input_index \in 0..(Len(tx.tx_ins) - 1) :
            With(Tx_sig_hash(cache, tx, input_index), LAMBDA r :
            /\ tx_obj' = tx
            /\ tx_arg' = input_index
            /\ tx_ret' = IF r.ok THEN Ok(r.val) ELSE Raise(r.err)
            /\ cache' = r.cache
            /\ cache_obj' = FilledObjects(cache, r.cache, cache_obj))
    /\ tx_call' = "sig_hash"
    /\ UNCHANGED <<fetch_args, tx_ser, tx_parsed, tx_after, nonTxVars>>

\* tx.verify()
TxVerify ==
    /\ Idle
    /\ \E tx \in SpendTxs :
        With(Tx_verify(cache, tx), LAMBDA r :
        /\ tx_obj' = tx
        /\ tx_ret' = IF r.ok THEN Ok(r.val) ELSE Raise(r.err)
        /\ cache' = r.cache
        /\ cache_obj' = FilledObjects(cache, r.cache, cache_obj))
    /\ tx_call' = "verify"
    /\ UNCHANGED <<fetch_args, tx_arg, tx_ser, tx_parsed, tx_after, nonTxVars>>

\* tx.sign_input(input_index, private_key), for a valid input index
TxSignInput ==
    /\ Idle
    /\ \E tx \in SpendTxs, private_key \in SigningKeys :
        \E input_index \in 0..(Len(tx.tx_ins) - 1) :
            With(Tx_sign_input(cache, tx, input_index, private_key), LAMBDA r :
            /\ tx_obj' = tx
            /\ tx_arg' = input_index
            /\ tx_after' = r.tx
            /\ tx_ret' = IF r.ok THEN Ok(r.val) ELSE Raise(r.err)
            /\ cache' = r.cache
            /\ cache_obj' = FilledObjects(cache, r.cache, cache_obj))
    /\ tx_call' = "sign_input"
    /\ UNCHANGED <<fetch_args, tx_ser, tx_parsed, nonTxVars>>

NextTx == TxFetch \/ TxSerialize \/ TxParse \/ TxSigHash \/ TxVerify \/ TxSignInput

SpecTx == Init /\ [][NextTx]_vars

(***************************************************************************)
(* Claims about transactions.                                              *)
(***************************************************************************)
\* C28 as stated: over any sequence of fetch calls an entry of the cache is
\* created at most once, never removed and never replaced by another Tx
\* object, its Tx has the id it is stored under when it is inserted, and the
\* only change to a cached Tx is its testnet flag, set to the flag of the
\* latest call.
HasEntry(id) == cache_obj[id] > 0
Inserted(id) == cache_obj'[id] # cache_obj[id]
OnlyFlagChanged(id) == [cache'[id] EXCEPT !.testnet = cache[id].testnet] = cache[id]
InsertedUnderItsId(id) == Inserted(id) => Tx_hash(cache'[id]) = Ok(id)
FlagOfLatestCall(id) ==
    fetch_args' # fetch_args /\ fetch_args'[1].tx_id = id /\ fetch_args'[1].returned =>
        cache'[id].testnet = fetch_args'[1].testnet
EntryCreatedOnceStep ==
    \A id \in TxIds :
        /\ HasEntry(id) => ~Inserted(id) /\ cache'[id] # Absent /\ OnlyFlagChanged(id)
        /\ InsertedUnderItsId(id)
        /\ FlagOfLatestCall(id)
FreshFetchOf(id) ==
    fetch_args' # fetch_args /\ fetch_args'[1].tx_id = id /\ fetch_args'[1].fresh
EntryReplacedOnlyByFreshStep ==
    \A id \in TxIds :
        /\ HasEntry(id) => cache'[id] # Absent
        /\ HasEntry(id) /\ ~Inserted(id) => OnlyFlagChanged(id)
        /\ HasEntry(id) /\ Inserted(id) => FreshFetchOf(id)
        /\ InsertedUnderItsId(id)
        /\ FlagOfLatestCall(id)
Resolvable(tx) ==
    \A i \in 1..Len(tx.tx_ins) :
        tx.tx_ins[i].prev_tx = IdA /\ tx.tx_ins[i].prev_index < Len(ServedTx.tx_outs)

\* the fee of a transaction whose inputs are resolvable
RECURSIVE SpentAmount(_)
SpentAmount(tx_ins) ==
    IF tx_ins = <<>> THEN 0
    ELSE ServedTx.tx_outs[Head(tx_ins).prev_index + 1].amount + SpentAmount(Tail(tx_ins))
ExpectedFee(tx) == SpentAmount(tx.tx_ins) - SumAmounts(tx.tx_outs)

\* verify_input(i) is true: the input's script_sig followed by the spent
\* output's script_pubkey evaluates to True
InputVerifies(tx_in) ==
    Script_evaluate(tx_in.script_sig
                    \o ServedTx.tx_outs[tx_in.prev_index + 1].script_pubkey, 0) = "True"

\* C29 as stated: on a transaction whose inputs are resolvable
\* sign_input(i, sk) returns, having replaced input i's
\* script_sig by a script of two data items, the DER signature followed by
\* the byte 01 and the SEC public key; the version, the locktime, the
\* outputs, the other inputs and input i's prev_tx, prev_index and sequence
\* are unchanged.
SignedInput == tx_after.tx_ins[tx_arg + 1]
FrameKept ==
    [tx_after EXCEPT !.tx_ins[tx_arg + 1].script_sig = <<>>]
        = [tx_obj EXCEPT !.tx_ins[tx_arg + 1].script_sig = <<>>]
C29_SignInputInstallsScript ==
    tx_call = "sign_input" /\ Resolvable(tx_obj) =>
        /\ tx_ret.ok
        /\ Len(SignedInput.script_sig) = 2
        /\ ~IsOp(SignedInput.script_sig[1]) /\ ~IsOp(SignedInput.script_sig[2])
        /\ SignedInput.script_sig[1].data[1] = 48
        /\ SignedInput.script_sig[1].data[Len(SignedInput.script_sig[1].data)] = 1
        /\ Len(SignedInput.script_sig[2].data) = 33
        /\ FrameKept

\* C29, what the code does: sig_hash raises AttributeError, so sign_input
\* raises it and the transaction is left as it was, script_sig included.
C29_SignInputRaises ==
    tx_call = "sign_input" /\ Resolvable(tx_obj) =>
        /\ tx_ret = Raise("AttributeError")
        /\ tx_after = tx_obj

\* C2: verify() of a transaction whose inputs are resolvable returns a
\* boolean, and it returns True if and only if the fee is not negative and
\* every input verifies.
C2_VerifyVerdict ==
    tx_call = "verify" /\ Resolvable(tx_obj) =>
        /\ tx_ret.ok
        /\ tx_ret.val \in {"True", "False"}
        /\ tx_ret.val = "True" <=>
               /\ ExpectedFee(tx_obj) >= 0
               /\ \A i \in 1..Len(tx_obj.tx_ins) : InputVerifies(tx_obj.tx_ins[i])

\* what does hold: a negative fee gives False, no input gives True
C2_NegativeFeeIsFalse ==
    tx_call = "verify" /\ Resolvable(tx_obj) =>
        /\ ExpectedFee(tx_obj) < 0 => tx_ret = Ok("False")
        /\ ExpectedFee(tx_obj) >= 0 /\ tx_obj.tx_ins = <<>> => tx_ret = Ok("True")
        /\ ExpectedFee(tx_obj) >= 0 /\ tx_obj.tx_ins # <<>> => tx_ret = Raise("AttributeError")

\* the pre-image of C3: input i carries the previous output's script_pubkey,
\* the other inputs an empty script, the rest is the transaction's
SigHashPreimage(tx, input_index) ==
    LET ins == [i \in 1..Len(tx.tx_ins) |->
                  [tx.tx_ins[i] EXCEPT !.script_sig =
                      IF i = input_index + 1
                      THEN ServedTx.tx_outs[tx.tx_ins[i].prev_index + 1].script_pubkey
                      ELSE <<>>]]
    IN Tx_serialize([tx EXCEPT !.tx_ins = ins]).val
       \o int_to_little_endian(1, 4)

\* C3: sig_hash(i) of a transaction whose inputs are resolvable returns the
\* big-endian integer of hash256 of that pre-image.
C3_SigHashValue ==
    tx_call = "sig_hash" /\ Resolvable(tx_obj) =>
        tx_ret = Ok(big_endian_to_int(hash256(SigHashPreimage(tx_obj, tx_arg))))

\* what does hold: sig_hash raises AttributeError for every valid index
C3_SigHashRaises ==
    tx_call = "sig_hash" /\ Resolvable(tx_obj) => tx_ret = Raise("AttributeError")

\* the fields the round trip compares (a parsed Tx has testnet = False)
SameTx(a, b) ==
    /\ a.version = b.version
    /\ a.locktime = b.locktime
    /\ a.tx_ins = b.tx_ins
    /\ a.tx_outs = b.tx_outs

\* C9: Tx.parse(tx.serialize()) is a transaction equal to tx, for any
\* number of inputs and outputs.
C9_TxRoundTrip ==
    /\ tx_call = "serialize" => tx_ser.ok
    /\ tx_call = "parse" => tx_parsed.ok /\ SameTx(tx_parsed.val, tx_obj)

\* the round trip with fewer than 253 inputs and outputs
C9_ShortTxRoundTrip ==
    tx_call = "parse" /\ Len(tx_obj.tx_ins) < VarintLimit /\ Len(tx_obj.tx_outs) < VarintLimit =>
        tx_parsed.ok /\ SameTx(tx_parsed.val, tx_obj)

(***************************************************************************)
(* ecc actions.                                                            *)
(***************************************************************************)
\* p + q for two points of the curve
PointAdd ==
    /\ Idle
    /\ \E p \in CurvePoints, q \in CurvePoints :
        /\ ecc_args' = <<p, q>>
        /\ ecc_ret' = Point_add(p, q)
    /\ ecc_call' = "add"
    /\ UNCHANGED <<ecc_key, nonEccVars>>

\* PrivateKey(secret)
NewPrivateKey ==
    /\ Idle
    /\ \E secret \in 0..N :
        /\ ecc_args' = <<secret>>
        /\ ecc_key' = PrivateKey(secret)
    /\ ecc_call' = "PrivateKey"
    /\ UNCHANGED <<ecc_ret, nonEccVars>>

\* key.sign(z) on the key just constructed
Sign ==
    /\ ecc_call = "PrivateKey"
    /\ ecc_key.ok
    /\ \E z \in EccZValues :
        /\ ecc_args' = <<ecc_key.val.secret, z>>
        /\ ecc_ret' = PrivateKey_sign(ecc_key.val, z)
    /\ ecc_call' = "sign"
    /\ UNCHANGED <<ecc_key, nonEccVars>>

\* point.verify(z, Signature(r, s))
Verify ==
    /\ Idle
    /\ \E point \in CurvePoints, z \in EccZValues, r \in 0..1, s \in 1..2 :
        /\ ecc_args' = <<point, z, Signature(r, s)>>
        /\ ecc_ret' = S256Point_verify(point, z, Signature(r, s))
    /\ ecc_call' = "verify"
    /\ UNCHANGED <<ecc_key, nonEccVars>>

\* FieldElement(num, prime), 0 <= num < prime
FieldElement(num, prime) == [num |-> num, prime |-> prime]

\* the coordinates Point is constructed from: every pair over the model's
\* field, the coordinates of the points of the test over F_223, and None
PointInputs ==
    {<<c, S256Field(A), S256Field(B)>> :
        c \in ({S256Field(n) : n \in 0..(P - 1)} \cup {NoneVal})
              \X ({S256Field(n) : n \in 0..(P - 1)} \cup {NoneVal})}
    \cup {<<c, FieldElement(0, 223), FieldElement(7, 223)>> :
        c \in ({FieldElement(n, 223) : n \in {192, 17, 1, 200, 42}} \cup {NoneVal})
              \X ({FieldElement(n, 223) : n \in {105, 56, 193, 119, 99}} \cup {NoneVal})}

\* Point(x, y, a, b)
NewPoint ==
    /\ Idle
    /\ \E i \in PointInputs :
        /\ ecc_args' = <<i[1][1], i[1][2], i[2], i[3]>>
        /\ ecc_ret' = Point(i[1][1], i[1][2], i[2], i[3])
    /\ ecc_call' = "Point"
    /\ UNCHANGED <<ecc_key, nonEccVars>>

NextEcc == PointAdd \/ NewPrivateKey \/ Sign \/ Verify \/ NewPoint

SpecEcc == Init /\ [][NextEcc]_vars

(***************************************************************************)
(* Claims about signatures.                                                *)
(***************************************************************************)
\* key.point.verify(z, key.sign(z)) returns True
RoundTrips(key, z) ==
    /\ PrivateKey_sign(key, z).ok
    /\ S256Point_verify(key.point, z, PrivateKey_sign(key, z).val) = Ok(TRUE)

\* C1: for a secret in 1..N-1 and a signature hash z, PrivateKey(secret)
\* is constructed, and its public point verifies the signature it makes
\* for z.
C1_SignVerifyRoundTrip ==
    ecc_call = "PrivateKey" /\ ecc_args[1] \in 1..(N - 1) =>
        /\ ecc_key.ok
        /\ \A z \in EccZValues : RoundTrips(ecc_key.val, z)

\* what does hold: the constructor raises TypeError unless secret % N = 0,
\* and so does every sum of a point with itself
C1_ConstructorRaises ==
    /\ ecc_call = "PrivateKey" =>
        ecc_key.ok <=> ecc_args[1] % N = 0
    /\ ecc_call = "PrivateKey" /\ ~ecc_key.ok => ecc_key = Raise("TypeError")
    /\ ecc_call = "add" /\ ecc_args[1] = ecc_args[2] /\ ecc_args[1].x # NoneVal =>
        ecc_ret = Raise("TypeError")
    /\ ecc_call = "add" /\ ~(ecc_args[1] = ecc_args[2] /\ ecc_args[1].x # NoneVal) =>
        ecc_ret.ok /\ ecc_ret.val \in CurvePoints

(***************************************************************************)
(* Claims about points.                                                    *)
(***************************************************************************)
\* y^2 = x^3 + a*x + b in the field, on the integers of the coordinates
OnCurve(x, y, a, b) ==
    (y.num * y.num) % a.prime
        = (((x.num * x.num) % a.prime) * x.num + a.num * x.num + b.num) % a.prime

\* a Point value: both coordinates absent, or both present and on the curve
ValidPoint(v) ==
    /\ DOMAIN v = {"x", "y", "a", "b"}
    /\ \/ v.x = NoneVal /\ v.y = NoneVal
       \/ v.x # NoneVal /\ v.y # NoneVal /\ OnCurve(v.x, v.y, v.a, v.b)

\* the points of the test over F_223 that are on the curve, and that are not
OnCurve223 == {<<192, 105>>, <<17, 56>>, <<1, 193>>}
OffCurve223 == {<<200, 119>>, <<42, 99>>}

Coordinates223(c) ==
    /\ ecc_args[3].prime = 223
    /\ ecc_args[1] = FieldElement(c[1], 223)
    /\ ecc_args[2] = FieldElement(c[2], 223)

\* C18: Point(x, y, a, b) is constructed exactly when both coordinates are
\* absent or the curve equation holds, and raises ValueError for coordinates
\* off the curve; over F_223 with a = 0, b = 7 it accepts (192,105), (17,56),
\* (1,193) and rejects (200,119), (42,99); every point an addition returns is
\* the point at infinity or on the curve.
C18_PointInvariant ==
    /\ ecc_call = "Point" =>
        /\ ecc_ret.ok <=>
              ValidPoint([x |-> ecc_args[1], y |-> ecc_args[2],
                          a |-> ecc_args[3], b |-> ecc_args[4]])
        /\ ecc_ret.ok =>
              ecc_ret.val = [x |-> ecc_args[1], y |-> ecc_args[2],
                             a |-> ecc_args[3], b |-> ecc_args[4]]
        /\ ~ecc_ret.ok /\ ecc_args[1] # NoneVal /\ ecc_args[2] # NoneVal =>
              ecc_ret = Raise("ValueError")
        /\ \A c \in OnCurve223 : Coordinates223(c) => ecc_ret.ok
        /\ \A c \in OffCurve223 : Coordinates223(c) => ecc_ret = Raise("ValueError")
    /\ ecc_call = "add" /\ ecc_ret.ok => ValidPoint(ecc_ret.val)

\* the point (192, 105) over F_223 has been constructed
C18_Witness ==
    /\ ecc_call = "Point"
    /\ Coordinates223(<<192, 105>>)
    /\ ecc_ret.ok

\* the point (200, 119) over F_223 has been rejected
C18_WitnessRejected ==
    /\ ecc_call = "Point"
    /\ Coordinates223(<<200, 119>>)
    /\ ecc_ret = Raise("ValueError")

\* an addition has returned a finite point
C18_WitnessSum ==
    /\ ecc_call = "add"
    /\ ecc_ret.ok
    /\ ecc_ret.val.x # NoneVal
    /\ ecc_ret.val \notin {ecc_args[1], ecc_args[2]}

\* the point of the curve of `self` with these integer coordinates modulo
\* the prime
PointAt(self, x, y) ==
    [x |-> FieldElement(x % self.a.prime, self.a.prime),
     y |-> FieldElement(y % self.a.prime, self.a.prime), a |-> self.a, b |-> self.b]

Infinity(self) == [x |-> NoneVal, y |-> NoneVal, a |-> self.a, b |-> self.b]

\* the third point of the line of this slope through (x1, y1) and (x2, _)
ThirdPoint(self, slope, x1, y1, x2) ==
    PointAt(self, slope * slope - x1 - x2,
            slope * (x1 - ((slope * slope - x1 - x2) % self.a.prime)) - y1)

\* the sum of two points of the same curve, by the five cases of addition
ExpectedSum(self, other) ==
    IF self.x = NoneVal THEN other
    ELSE IF other.x = NoneVal THEN self
    ELSE IF self.x = other.x /\ self.y # other.y THEN Infinity(self)
    ELSE IF self.x # other.x
    THEN ThirdPoint(self,
                    ((other.y.num - self.y.num)
                     * ModPow((other.x.num - self.x.num) % self.a.prime,
                              self.a.prime - 2, self.a.prime)) % self.a.prime,
                    self.x.num, self.y.num, other.x.num)
    ELSE IF self.y.num # 0
    THEN ThirdPoint(self,
                    ((3 * self.x.num * self.x.num + self.a.num)
                     * ModPow((2 * self.y.num) % self.a.prime,
                              self.a.prime - 2, self.a.prime)) % self.a.prime,
                    self.x.num, self.y.num, self.x.num)
    ELSE Infinity(self)

SamePoint == ecc_args[1] = ecc_args[2] /\ ecc_args[1].x # NoneVal

\* C19: p + q for two points of the curve is q when p is the point at
\* infinity, p when q is, the point at infinity for the same x and different
\* y, the chord result for different x, the tangent result for the same point
\* with y # 0 and the point at infinity for the same point with y = 0; it is
\* always a point, never an error or no value.
C19_AdditionCases ==
    ecc_call = "add" => ecc_ret = Ok(ExpectedSum(ecc_args[1], ecc_args[2]))

\* what the code does: the first three cases are as stated, and adding a
\* finite point to itself raises TypeError
C19_DoublingRaises ==
    ecc_call = "add" =>
        ecc_ret = IF SamePoint THEN Raise("TypeError")
                  ELSE Ok(ExpectedSum(ecc_args[1], ecc_args[2]))

(***************************************************************************)
(* helper.py actions: each call is made from the idle state.               *)
(***************************************************************************)
\* the integers encode_varint is run on: both sides of every branch the
\* model's integers reach
VarintInputs == {0, 1, 252, 253, 254, 255, 256, 65535, 65536, 2147483647}

\* encode_varint(i)
VarintEncode ==
    /\ Idle
    /\ \E i \in VarintInputs :
        /\ hp_arg' = i
        /\ hp_mid' = Ok(encode_varint(i))
    /\ hp_call' = "encode_varint"
    /\ UNCHANGED <<hp_ret, hp_list, nonHelperVars>>

\* read_varint(BytesIO(those bytes))
VarintRead ==
    /\ hp_call = "encode_varint"
    /\ hp_ret' = read_varint(hp_mid.val)
    /\ hp_call' = "read_varint"
    /\ UNCHANGED <<hp_arg, hp_mid, hp_list, nonHelperVars>>

\* merkle_parent_level without the duplication of an odd level's last hash
merkle_parent_level_drops_last(hs) ==
    IF Len(hs) = 1 THEN Raise("RuntimeError")
    ELSE Ok([i \in 1..(Len(hs) \div 2) |->
                merkle_parent(hs[2 * i - 1], hs[2 * i])])

\* merkle_parent_level(hashes): an odd list gets its last hash appended,
\* then each pair gives one parent
merkle_parent_level(hs) ==
    IF Len(hs) = 1 THEN Raise("RuntimeError")
    ELSE With(IF Len(hs) % 2 = 1 THEN Append(hs, hs[Len(hs)])
              ELSE hs,
              LAMBDA padded :
         Ok([i \in 1..(Len(padded) \div 2) |->
                merkle_parent(padded[2 * i - 1], padded[2 * i])]))

\* the list given to merkle_parent_level as the call leaves it: the last
\* hash of an odd list is appended to the list itself
hashes_after(hs) ==
    IF Len(hs) # 1 /\ Len(hs) % 2 = 1 THEN Append(hs, hs[Len(hs)]) ELSE hs

\* merkle_parent_level(hashes) called directly
MerkleParentLevelCall ==
    /\ Idle
    /\ \E hs \in SeqsUpTo(Digests, MaxLeaves) :
        /\ hp_arg' = hs
        /\ hp_list' = [val |-> hashes_after(hs), is_current_level |-> FALSE]
        /\ hp_ret' = merkle_parent_level(hs)
    /\ hp_call' = "merkle_parent_level"
    /\ UNCHANGED <<hp_mid, nonHelperVars>>

\* merkle_root(hashes): current_level = hashes, the caller's list itself
MerkleRootCall ==
    /\ Idle
    /\ \E hs \in SeqsUpTo(Digests, MaxLeaves) :
        /\ hp_arg' = hs
        /\ hp_mid' = Ok(hs)
        /\ hp_list' = [val |-> hs, is_current_level |-> TRUE]
    /\ hp_call' = "merkle_root"
    /\ UNCHANGED <<hp_ret, nonHelperVars>>

\* merkle_root: the loop test, and then one iteration or the return
\* statement (current_level[0], IndexError on an empty list)
MerkleRootStep ==
    /\ hp_call = "merkle_root"
    /\ IF ~hp_mid.ok
       THEN hp_ret' = hp_mid /\ hp_call' = "merkle_root_done"
            /\ UNCHANGED <<hp_mid, hp_list>>
       ELSE IF Len(hp_mid.val) > 1
       THEN /\ hp_mid' = merkle_parent_level(hp_mid.val)
            /\ hp_list' = [val |-> IF hp_list.is_current_level
                                   THEN hashes_after(hp_list.val)
                                   ELSE hp_list.val,
                            is_current_level |-> FALSE]
            /\ UNCHANGED <<hp_call, hp_ret>>
       ELSE /\ hp_ret' = IF hp_mid.val = <<>> THEN Raise("IndexError")
                         ELSE Ok(hp_mid.val[1])
            /\ hp_call' = "merkle_root_done"
            /\ UNCHANGED <<hp_mid, hp_list>>
    /\ UNCHANGED <<hp_arg, nonHelperVars>>

\* A Python int that may exceed the model's integers (a target) is kept as
\* [int |-> its big-endian base-256 digits, without leading zeros]; a Python
\* float as [float |-> TRUE].
RECURSIVE BigEndianDigits(_)
BigEndianDigits(n) ==
    IF n = 0 THEN <<>> ELSE BigEndianDigits(n \div 256) \o <<n % 256>>

\* bits_to_target(bits): coefficient * 256 ** (exponent - 3); a negative
\* power of 256 is a float in Python, and so is the product
bits_to_target(bits) ==
    With(bits[Len(bits)], LAMBDA exponent :
    With(little_endian_to_int(SubSeq(bits, 1, Len(bits) - 1)), LAMBDA coefficient :
    IF exponent - 3 < 0 THEN [float |-> TRUE]
    ELSE IF coefficient = 0 THEN [int |-> <<>>]
    ELSE [int |-> BigEndianDigits(coefficient) \o Bytes(exponent - 3, 0)]))

\* target.to_bytes(32, "big")
to_bytes_32(target) ==
    IF "float" \in DOMAIN target THEN Raise("AttributeError")
    ELSE IF Len(target.int) > 32 THEN Raise("OverflowError")
    ELSE Ok(Bytes(32 - Len(target.int), 0) \o target.int)

\* target_to_bits that leaves the coefficient in big-endian order
target_to_bits_big_endian(target) ==
    Try(to_bytes_32(target), LAMBDA padded :
    With(LStrip(padded), LAMBDA raw_bytes :
    IF raw_bytes = <<>> THEN Raise("IndexError")
    ELSE IF raw_bytes[1] > 127
    THEN Ok(<<0>> \o SubSeq(raw_bytes, 1, Min(2, Len(raw_bytes)))
            \o <<Len(raw_bytes) + 1>>)
    ELSE Ok(SubSeq(raw_bytes, 1, Min(3, Len(raw_bytes))) \o <<Len(raw_bytes)>>)))

\* target_to_bits(target)
target_to_bits(target) ==
    Try(to_bytes_32(target), LAMBDA padded :
    With(LStrip(padded), LAMBDA raw_bytes :
    IF raw_bytes = <<>> THEN Raise("IndexError")
    ELSE IF raw_bytes[1] > 127
    THEN Ok(Reverse(<<0>> \o SubSeq(raw_bytes, 1, Min(2, Len(raw_bytes))))
            \o <<Len(raw_bytes) + 1>>)
    ELSE Ok(Reverse(SubSeq(raw_bytes, 1, Min(3, Len(raw_bytes))))
            \o <<Len(raw_bytes)>>)))

\* the 4-byte bits values: little-endian coefficient bytes, whose top byte is
\* zero, small, 0x7f or 0x80, and an exponent on both sides of 3 and of 32
BitsInputs ==
    {<<c0, c1, c2, e>> : c0 \in {0, 255}, c1 \in {0, 1}, c2 \in {0, 1, 127, 128},
                         e \in {0, 2, 3, 4, 29, 32, 33}}

\* bits_to_target(bits)
BitsToTarget ==
    /\ Idle
    /\ \E b \in BitsInputs :
        /\ hp_arg' = b
        /\ hp_mid' = Ok(bits_to_target(b))
    /\ hp_call' = "bits_to_target"
    /\ UNCHANGED <<hp_ret, hp_list, nonHelperVars>>

\* target_to_bits(that target)
TargetToBits ==
    /\ hp_call = "bits_to_target"
    /\ hp_ret' = target_to_bits(hp_mid.val)
    /\ hp_call' = "target_to_bits"
    /\ UNCHANGED <<hp_arg, hp_mid, hp_list, nonHelperVars>>

NextHelper ==
    \/ VarintEncode \/ VarintRead
    \/ MerkleParentLevelCall \/ MerkleRootCall \/ MerkleRootStep
    \/ BitsToTarget \/ TargetToBits

SpecHelper == Init /\ [][NextHelper]_vars

\* C12: encode_varint(i) has 1, 3, 5 or 9 bytes and read_varint gives i back
\* from them.
C12_VarintRoundTrip ==
    /\ hp_call = "encode_varint" => Len(hp_mid.val) \in {1, 3, 5, 9}
    /\ hp_call = "read_varint" => hp_ret.ok /\ hp_ret.val = hp_arg /\ hp_ret.rest = <<>>

\* what the code does: the round trip holds below 253, and from 253 on the
\* bytes carry the value 1
C12_MultiByteCarriesOne ==
    hp_call = "read_varint" =>
        /\ hp_ret.ok
        /\ hp_ret.val = IF hp_arg < 253 THEN hp_arg ELSE 1

\* the parent level of a level: consecutive hashes paired, the last hash of
\* an odd level paired with itself
ParentLevel(level) ==
    [i \in 1..((Len(level) + 1) \div 2) |->
        merkle_parent(level[2 * i - 1],
                      level[IF 2 * i <= Len(level) THEN 2 * i ELSE 2 * i - 1])]

RECURSIVE RootOf(_)
RootOf(level) == IF Len(level) = 1 THEN level[1] ELSE RootOf(ParentLevel(level))

\* C16: merkle_root of a non-empty list returns the single hash left after
\* replacing the level by its parent level until one hash remains (the list's
\* only hash when it has one).
C16_MerkleRoot ==
    hp_call = "merkle_root_done" /\ hp_arg # <<>> => hp_ret = Ok(RootOf(hp_arg))

\* merkle_root has returned the root of a list with an odd level
C16_Witness ==
    /\ hp_call = "merkle_root_done"
    /\ Len(hp_arg) = 3
    /\ hp_ret.ok
    /\ hp_ret.val # merkle_parent(hp_arg[1], hp_arg[2])

\* a canonical bits value: the coefficient's top byte is non-zero and at
\* most 0x7f
Canonical(b) == b[3] \in 1..127

\* C24 as stated: merkle_root(hashes) and merkle_parent_level(hashes) leave
\* the caller's list unchanged (same length, same elements) for every input,
\* lists of odd length included.
CallOnListEnded == hp_call \in {"merkle_parent_level", "merkle_root_done"}
C24_CallerListUnchanged == CallOnListEnded => hp_list.val = hp_arg

\* C24, what the code does: a list of odd length other than 1 comes back one
\* hash longer, its last hash twice at the end; every other list is unchanged.
C24_OddListGrows ==
    CallOnListEnded =>
        /\ Len(hp_arg) % 2 = 0 \/ Len(hp_arg) = 1 => hp_list.val = hp_arg
        /\ Len(hp_arg) % 2 = 1 /\ Len(hp_arg) > 1 =>
              /\ Len(hp_list.val) = Len(hp_arg) + 1
              /\ SubSeq(hp_list.val, 1, Len(hp_arg)) = hp_arg
              /\ hp_list.val[Len(hp_arg) + 1] = hp_arg[Len(hp_arg)]

\* C17 as stated: target_to_bits(bits_to_target(b)) = b for every canonical b,
\* whatever its exponent byte.
C17_BitsRoundTripAnyExponent ==
    hp_call = "target_to_bits" /\ Canonical(hp_arg) => hp_ret = Ok(hp_arg)

\* C17: target_to_bits(bits_to_target(b)) = b for every canonical b whose
\* exponent is between 3 and 32, the exponents whose target is an integer of
\* at most 32 bytes.
C17_BitsRoundTrip ==
    hp_call = "target_to_bits" /\ Canonical(hp_arg) /\ hp_arg[4] \in 3..32 =>
        hp_ret = Ok(hp_arg)

\* a canonical value with the largest exponent and an asymmetric coefficient
\* has made the round trip
C17_Witness ==
    /\ hp_call = "target_to_bits"
    /\ hp_arg = <<255, 0, 127, 32>>
    /\ hp_ret.ok

(***************************************************************************)
(* network.py actions.                                                     *)
(***************************************************************************)

\* the commands and payloads envelopes are made of: a command may fill all
\* 12 bytes, a payload may be empty or an 8-byte nonce
NetCommands ==
    {command_of.VersionMessage, command_of.VerAckMessage, command_of.PingMessage,
     command_of.HeadersMessage, Bytes(12, 97)}
NetPayloads == {<<>>, <<5>>, <<1, 2, 3, 4, 5, 6, 7, 8>>}

\* the magic the protocol gives each network
MainnetMagic == <<249, 190, 180, 217>>
TestnetMagic == <<11, 17, 9, 7>>
ProtocolMagic(testnet) == IF testnet THEN TestnetMagic ELSE MainnetMagic

\* the checksum of a payload: the first bytes of its hash256
Checksum(payload) == SubSeq(hash256(payload), 1, ChecksumLen)

\* a frame on the wire: magic, command padded to 12, length, checksum, payload
WireFrame(f) ==
    f.magic \o f.command \o Bytes(12 - Len(f.command), 0)
    \o int_to_little_endian(Len(f.payload), 4) \o f.checksum \o f.payload

\* the frames a peer may send: right or wrong magic, right or wrong checksum
PeerFrames ==
    [magic : {MainnetMagic, TestnetMagic, <<1, 2, 3, 4>>},
     command : {command_of.VersionMessage, command_of.PingMessage},
     payload : NetPayloads,
     checksum : {Checksum(pl) : pl \in NetPayloads} \cup {Bytes(ChecksumLen, 9)}]

\* SimpleNode.send(message): the envelope's bytes go to the socket
Send(sent, command, payload, testnet) ==
    Append(sent, NetworkEnvelope_serialize(NetworkEnvelope(command, payload, testnet)))

\* wait_for, the loop body, given what self.read() gave
WaitForIter(read) ==
    IF ~read.ok
    THEN /\ net_ret' = read
         /\ net_call' = "done"
         /\ UNCHANGED <<net_stream, net_command, net_sent>>
    ELSE /\ net_stream' = read.rest
         /\ net_command' = <<read.val.command>>
         /\ net_sent' =
              IF read.val.command = command_of.VersionMessage
              THEN Send(net_sent, command_of.VerAckMessage, <<>>, net_arg.testnet)
              ELSE IF read.val.command = command_of.PingMessage
              THEN Send(net_sent, command_of.PongMessage, read.val.paylaod, net_arg.testnet)
              ELSE net_sent
         /\ UNCHANGED <<net_call, net_ret>>

\* NetworkEnvelope(command, payload, testnet).serialize()
EnvelopeSerialize ==
    /\ Idle
    /\ \E command \in NetCommands, payload \in NetPayloads, testnet \in BOOLEAN :
        /\ net_arg' = [command |-> command, payload |-> payload, testnet |-> testnet]
        /\ net_ser' = Ok(NetworkEnvelope_serialize(NetworkEnvelope(command, payload, testnet)))
    /\ net_call' = "serialize"
    /\ UNCHANGED <<net_ret, net_stream, net_command, net_sent, nonNetVars>>

\* NetworkEnvelope.parse(BytesIO(those bytes), testnet) with the same flag
EnvelopeParse ==
    /\ net_call = "serialize"
    /\ net_ret' = NetworkEnvelope_parse(net_ser.val, net_arg.testnet)
    /\ net_call' = "parse"
    /\ UNCHANGED <<net_arg, net_ser, net_stream, net_command, net_sent, nonNetVars>>

\* NetworkEnvelope.parse(BytesIO(frame), testnet) on a frame a peer sent
FrameParse ==
    /\ Idle
    /\ \E f \in PeerFrames, testnet \in BOOLEAN :
        /\ net_arg' = [frame |-> f, testnet |-> testnet]
        /\ net_ret' = NetworkEnvelope_parse(WireFrame(f), testnet)
    /\ net_call' = "parse_frame"
    /\ UNCHANGED <<net_ser, net_stream, net_command, net_sent, nonNetVars>>

\* the envelopes a peer sends in a session, each well formed for the network
PeerEnvelopes ==
    [command : {command_of.VersionMessage, command_of.VerAckMessage,
                command_of.PingMessage, command_of.HeadersMessage},
     payload : {<<>>, <<1, 2, 3, 4, 5, 6, 7, 8>>}]
PeerSessions == SeqsUpTo(PeerEnvelopes, MaxFrames)

\* the bytes of a well-formed frame of the network
GoodFrame(command, payload, testnet) ==
    WireFrame([magic |-> ProtocolMagic(testnet), command |-> command,
               payload |-> payload, checksum |-> Checksum(payload)])

RECURSIVE SessionBytes(_, _)
SessionBytes(session, testnet) ==
    IF session = <<>> THEN <<>>
    ELSE GoodFrame(Head(session).command, Head(session).payload, testnet)
         \o SessionBytes(Tail(session), testnet)

\* node.wait_for(*message_classes): the locals are set up; the peer's frames
\* are in the stream, followed by the end of the connection
WaitForCall ==
    /\ Idle
    /\ \E session \in PeerSessions, testnet \in BOOLEAN,
          expected \in {{command_of.VerAckMessage}, {command_of.HeadersMessage},
                        {command_of.PingMessage, command_of.HeadersMessage}} :
        /\ net_arg' = [session |-> session, expected |-> expected, testnet |-> testnet]
        /\ net_stream' = SessionBytes(session, testnet)
    /\ net_command' = <<>>
    /\ net_call' = "wait_for"
    /\ UNCHANGED <<net_ser, net_ret, net_sent, nonNetVars>>

\* wait_for: the loop test, and then one iteration or the return statement,
\* where envelope.stream is an attribute NetworkEnvelope does not have
WaitForStep ==
    /\ net_call = "wait_for"
    /\ IF net_command # <<>> /\ net_command[1] \in net_arg.expected
       THEN /\ net_ret' = GetAttr(NetworkEnvelope(net_command[1], <<>>, net_arg.testnet),
                                  "stream")
            /\ net_call' = "done"
            /\ UNCHANGED <<net_stream, net_command, net_sent>>
       ELSE WaitForIter(NetworkEnvelope_parse(net_stream, net_arg.testnet))
    /\ UNCHANGED <<net_arg, net_ser, nonNetVars>>

NextNet == EnvelopeSerialize \/ EnvelopeParse \/ FrameParse \/ WaitForCall \/ WaitForStep

SpecNet == Init /\ [][NextNet]_vars

GoodMagic == net_arg.frame.magic = ProtocolMagic(net_arg.testnet)
GoodChecksum == net_arg.frame.checksum = Checksum(net_arg.frame.payload)

\* C13: NetworkEnvelope.parse accepts a frame exactly when its magic is the
\* selected network's (mainnet F9BEB4D9, testnet 0B110907) and its checksum
\* is the first bytes of hash256(payload); a wrong magic raises the magic
\* error (SyntaxError), a wrong checksum the checksum error (IOError).
C13_ParseAcceptsFrame ==
    net_call = "parse_frame" =>
        /\ net_ret.ok <=> GoodMagic /\ GoodChecksum
        /\ ~GoodMagic => net_ret = Raise("SyntaxError")
        /\ GoodMagic /\ ~GoodChecksum => net_ret = Raise("IOError")

\* what the code does: the magic test is the stated one, and every frame
\* that passes it raises TypeError at hash256(payload_length)
C13_ParseRaisesTypeError ==
    net_call = "parse_frame" =>
        net_ret = IF GoodMagic THEN Raise("TypeError") ELSE Raise("SyntaxError")

\* C14: parsing the bytes of NetworkEnvelope(command, payload,
\* testnet).serialize() with the same flag returns an envelope with the same
\* command, payload and magic, and does not raise.
C14_EnvelopeRoundTrip ==
    net_call = "parse" =>
        /\ net_ret.ok
        /\ net_ret.val = NetworkEnvelope(net_arg.command, net_arg.payload, net_arg.testnet)

\* what the code does: the constructor and the parser pick opposite magics
\* for the same flag, so the parser rejects every envelope of the constructor
C14_RoundTripRaises ==
    net_call = "parse" => net_ret = Raise("SyntaxError")

\* the envelopes of the session before the first expected one, and that one
FirstExpected(session, expected) ==
    CHOOSE k \in 1..Len(session) :
        /\ session[k].command \in expected
        /\ \A j \in 1..(k - 1) : session[j].command \notin expected

\* the replies owed to a list of envelopes: a verack per version, a pong
\* with the ping's payload per ping
RECURSIVE Replies(_, _)
Replies(session, testnet) ==
    IF session = <<>> THEN <<>>
    ELSE (IF Head(session).command = command_of.VersionMessage
          THEN <<GoodFrame(command_of.VerAckMessage, <<>>, testnet)>>
          ELSE IF Head(session).command = command_of.PingMessage
          THEN <<GoodFrame(command_of.PongMessage, Head(session).payload, testnet)>>
          ELSE <<>>)
         \o Replies(Tail(session), testnet)

ExpectedArrives ==
    \E k \in 1..Len(net_arg.session) : net_arg.session[k].command \in net_arg.expected

\* C15: when an envelope with an expected command arrives, wait_for returns
\* (that message), having read the envelopes up to it in order and sent one
\* verack per version and one pong, with the ping's payload, per ping among
\* them, and nothing else.
C15_WaitForReplies ==
    net_call = "done" /\ "session" \in DOMAIN net_arg /\ ExpectedArrives =>
        /\ net_ret.ok
        /\ net_sent = Replies(SubSeq(net_arg.session, 1,
                                     FirstExpected(net_arg.session, net_arg.expected)),
                              net_arg.testnet)

\* what the code does: the first read raises (TypeError from the envelope
\* parser, IOError at the end of the connection) and nothing is sent
C15_WaitForRaises ==
    net_call = "done" =>
        /\ net_sent = <<>>
        /\ net_ret = IF net_arg.session = <<>> THEN Raise("IOError") ELSE Raise("TypeError")

====
